---- MODULE Spec2Model ----
(***************************************************************************)
(* Message identity and delivery-state core (src/message.rs): the msgs     *)
(* and msgs_mdns tables, the read-receipt (MDN) quorum engine mdn_from_ext *)
(* and the state predicate can_fail; the identity predicates of MsgId, the  *)
(* row operations load_from_db, trash, delete_from_db, unlink and exists,  *)
(* and set_msg_failed.                                                     *)
(***************************************************************************)
EXTENDS Integers, FiniteSets, Sequences, TLC

\* ---------------------------------------------------------------- bounds
NumContacts == 2
MaxRawId == 30
MaxMembers == 4
MaxFail == 1

\* ------------------------------------------------------------- constants
DC_MSG_ID_LAST_SPECIAL == 9
DC_CONTACT_ID_SELF == 1
DC_CHAT_ID_TRASH == 3

Undefined == 0
InFresh == 10
InNoticed == 13
InSeen == 16
OutPreparing == 18
OutDraft == 19
OutPending == 20
OutFailed == 24
OutDelivered == 26
OutMdnRcvd == 28

MessageState ==
  {Undefined, InFresh, InNoticed, InSeen, OutPreparing, OutDraft,
   OutPending, OutFailed, OutDelivered, OutMdnRcvd}

Chattype == {"Single", "Group"}

\* -------------------------------------------------------------- universe
MsgIds == {DC_MSG_ID_LAST_SPECIAL + 1, DC_MSG_ID_LAST_SPECIAL + 2}
RealContacts == (DC_MSG_ID_LAST_SPECIAL + 1)..(DC_MSG_ID_LAST_SPECIAL + NumContacts)
FromIds == {DC_MSG_ID_LAST_SPECIAL} \cup RealContacts
ChatIds == {10, 11}
StoredMids == {"a", "b"}
Mids == {""} \cup StoredMids
Timestamps == {1}
SqlCalls == {"select", "exists", "insert", "count", "update"}

None == <<>>

\* States a stored row starts in: outgoing states for rows sent by the
\* local user, incoming states for rows sent by another contact.
SelfInitStates == {OutDraft, OutDelivered}
OtherInitStates == {InFresh}

Texts == {"", "hi"}
\* location_id of a row: 0 when no location is bound to the message.
LocationIds == {0, 5}
\* chats.blocked: Blocked::Not, or another value.
Blocked == {"Not", "Manually"}
Folders == {"", "INBOX"}
Uids == {0, 7}
ErrorTexts == {"", "err"}

\* A row of table msgs: the columns the operations below read or write.
\* param holds the value of Param::Error, "" when the key is not set.
MsgRow ==
  [chat_id : ChatIds \cup {DC_CHAT_ID_TRASH},
   from_id : {DC_CONTACT_ID_SELF} \cup {DC_MSG_ID_LAST_SPECIAL + 1},
   rfc724_mid : StoredMids, state : MessageState,
   txt : Texts, txt_raw : Texts, server_folder : Folders, server_uid : Uids,
   param : ErrorTexts, starred : BOOLEAN, location_id : LocationIds]

\* A row as it is stored when the message is sent or received.
FreshRow ==
  [chat_id : ChatIds,
   from_id : {DC_CONTACT_ID_SELF} \cup {DC_MSG_ID_LAST_SPECIAL + 1},
   rfc724_mid : StoredMids, state : SelfInitStates \cup OtherInitStates,
   txt : {"hi"}, txt_raw : {"hi"}, server_folder : {"INBOX"}, server_uid : {7},
   param : {""}, starred : {FALSE}, location_id : {0}]

VARIABLES
  msgs,       \* table msgs: message id -> row
  chats,      \* table chats: chat id -> [type, member_cnt, blocked]
  msgs_mdns,  \* table msgs_mdns: set of rows [msg_id, contact_id, timestamp_sent]
  ret,        \* value returned by the last mdn_from_ext call
  call,       \* last mdn_from_ext call: its arguments and the storage
              \* calls that failed while it ran
  mdn_moved,  \* ids whose row mdn_from_ext wrote OutMdnRcvd into
  returned,   \* ids mdn_from_ext has returned in a (chat_id, msg_id) pair
  op,         \* last call of a row operation: its name, arguments, the
              \* statements that failed, its result, whether it queried the
              \* storage, the event it emitted, and whether it repeats
              \* the call before it
  del,        \* delete_from_db between its two statements: the id, or None
  pure,       \* a value, its kind, and what the pure functions applied to
              \* it returned
  pc,         \* concurrent callers: the statement each is at
  loc,        \* concurrent callers: the local variables of each
  jobs,       \* table jobs: the pending jobs, in the order they were added
  locations,  \* table locations: the ids of the independent locations
  bulk        \* last call of a bulk operation: its name, arguments, the
              \* statements that failed, the statements it issued in order,
              \* the events it emitted and its result

mdnVars == <<ret, call, mdn_moved, returned>>
opVars == <<op, del>>
raceVars == <<pc, loc>>
bulkVars == <<jobs, locations, bulk>>
vars == <<msgs, chats, msgs_mdns, ret, call, mdn_moved, returned, op, del, pure,
          pc, loc, jobs, locations, bulk>>

\* ------------------------------------------------------- pure functions
\* Mutant of can_fail: a draft counts as a state that can still fail.
can_fail_NoPreparing(state) ==
  state \in {OutPending, OutDelivered}

can_fail_WithDraft(state) ==
  state \in {OutPreparing, OutDraft, OutPending, OutDelivered}

can_fail(state) ==
  state \in {OutPreparing, OutPending, OutDelivered}

Min(S) == CHOOSE x \in S : \A y \in S : x <= y

\* Mutant of SelectMdnMsg: the WHERE clause forgets the correlation string.
SelectMdnMsg_AnyMid(rfc724_mid) ==
  LET matching == {i \in DOMAIN msgs : msgs[i].from_id = DC_CONTACT_ID_SELF}
  IN IF matching = {} THEN None
     ELSE LET i == Min(matching)
          IN [msg_id |-> i, chat_id |-> msgs[i].chat_id,
              chat_type |-> chats[msgs[i].chat_id].type,
              msg_state |-> msgs[i].state]

\* Mutant of SelectMdnMsg: ORDER BY m.id DESC, the highest id comes first.
SelectMdnMsg_Highest(rfc724_mid) ==
  LET matching == {i \in DOMAIN msgs :
                     /\ msgs[i].rfc724_mid = rfc724_mid
                     /\ msgs[i].from_id = DC_CONTACT_ID_SELF}
  IN IF matching = {} THEN None
     ELSE LET i == CHOOSE x \in matching : \A y \in matching : x >= y
          IN [msg_id |-> i, chat_id |-> msgs[i].chat_id,
              chat_type |-> chats[msgs[i].chat_id].type,
              msg_state |-> msgs[i].state]

\* SELECT ... FROM msgs m LEFT JOIN chats c ... WHERE rfc724_mid=? AND
\* from_id=1 ORDER BY m.id;  -- first row, or None
SelectMdnMsg(rfc724_mid) ==
  LET matching == {i \in DOMAIN msgs :
                     /\ msgs[i].rfc724_mid = rfc724_mid
                     /\ msgs[i].from_id = DC_CONTACT_ID_SELF}
  IN IF matching = {} THEN None
     ELSE LET i == Min(matching)
          IN [msg_id |-> i, chat_id |-> msgs[i].chat_id,
              chat_type |-> chats[msgs[i].chat_id].type,
              msg_state |-> msgs[i].state]

\* SELECT contact_id FROM msgs_mdns WHERE msg_id=? AND contact_id=?;
MdnAlreadyInTable(table, msg_id, contact_id) ==
  \E r \in table : r.msg_id = msg_id /\ r.contact_id = contact_id

\* msgs_mdns is unique per (msg_id, contact_id): the storage refuses a row
\* whose key is already in the table.
MdnKeyFree(table, msg_id, contact_id) ==
  ~\E r \in table : r.msg_id = msg_id /\ r.contact_id = contact_id

\* INSERT INTO msgs_mdns (msg_id, contact_id, timestamp_sent) VALUES (?,?,?);
InsertMdn_Unchecked(table, msg_id, contact_id, timestamp_sent) ==
  table \cup {[msg_id |-> msg_id, contact_id |-> contact_id,
               timestamp_sent |-> timestamp_sent]}

InsertMdn(table, msg_id, contact_id, timestamp_sent) ==
  IF ~MdnKeyFree(table, msg_id, contact_id) THEN table
  ELSE table \cup {[msg_id |-> msg_id, contact_id |-> contact_id,
                    timestamp_sent |-> timestamp_sent]}

\* SELECT COUNT(*) FROM msgs_mdns WHERE msg_id=?;
CountMdns(table, msg_id) ==
  Cardinality({r \in table : r.msg_id = msg_id})

\* chat::get_chat_contact_cnt: the chat's member count, the local user included
get_chat_contact_cnt(chat_id) ==
  chats[chat_id].member_cnt

\* UPDATE msgs SET state=? WHERE id=?;
update_msg_state(table, msg_id, state) ==
  IF msg_id \in DOMAIN table
  THEN [table EXCEPT ![msg_id].state = state]
  ELSE table

\* -------------------------------------------------------------- mdn_from_ext
\* fail: the storage calls that fail during this call.
\* Mutant of MdnRejected: the last reserved contact id is let through.
MdnRejected_OffByOne(from_id, rfc724_mid) ==
  from_id < DC_MSG_ID_LAST_SPECIAL \/ rfc724_mid = ""

MdnRejected(from_id, rfc724_mid) ==
  from_id <= DC_MSG_ID_LAST_SPECIAL \/ rfc724_mid = ""

\* Mutant of MdnEvidence: no evidence row is stored.
MdnEvidence_NeverInserts(res, from_id, timestamp_sent, fail) ==
  msgs_mdns

MdnEvidence(res, from_id, timestamp_sent, fail) ==
  LET already == IF "exists" \in fail THEN FALSE
                 ELSE MdnAlreadyInTable(msgs_mdns, res.msg_id, from_id)
  IN IF ~already /\ "insert" \notin fail
     THEN InsertMdn(msgs_mdns, res.msg_id, from_id, timestamp_sent)
     ELSE msgs_mdns

\* Mutant of MdnReadByAll: the required count is not rounded up.
MdnReadByAll_NoRounding(res, table, fail) ==
  IF res.chat_type = "Single" THEN TRUE
  ELSE LET ist_cnt == IF "count" \in fail THEN 0 ELSE CountMdns(table, res.msg_id)
           soll_cnt == get_chat_contact_cnt(res.chat_id) \div 2
       IN ist_cnt >= soll_cnt

\* Mutant of MdnReadByAll: a one-to-one chat is counted like a group.
MdnReadByAll_SingleAsGroup(res, table, fail) ==
  LET ist_cnt == IF "count" \in fail THEN 0 ELSE CountMdns(table, res.msg_id)
      soll_cnt == (get_chat_contact_cnt(res.chat_id) + 1) \div 2
  IN ist_cnt >= soll_cnt

\* Mutant of MdnReadByAll: a failed insert ends the evaluation.
MdnReadByAll_InsertAborts(res, table, fail) ==
  IF "insert" \in fail THEN FALSE
  ELSE IF res.chat_type = "Single" THEN TRUE
  ELSE LET ist_cnt == IF "count" \in fail THEN 0 ELSE CountMdns(table, res.msg_id)
           soll_cnt == (get_chat_contact_cnt(res.chat_id) + 1) \div 2
       IN ist_cnt >= soll_cnt

\* Mutant of MdnReadByAll: the count has to exceed the required count.
MdnReadByAll_Strict(res, table, fail) ==
  IF res.chat_type = "Single" THEN TRUE
  ELSE LET ist_cnt == IF "count" \in fail THEN 0 ELSE CountMdns(table, res.msg_id)
           soll_cnt == (get_chat_contact_cnt(res.chat_id) + 1) \div 2
       IN ist_cnt > soll_cnt

MdnReadByAll(res, table, fail) ==
  IF res.chat_type = "Single" THEN TRUE
  ELSE LET ist_cnt == IF "count" \in fail THEN 0 ELSE CountMdns(table, res.msg_id)
           soll_cnt == (get_chat_contact_cnt(res.chat_id) + 1) \div 2
       IN ist_cnt >= soll_cnt

MdnReturn(res, read_by_all) ==
  IF read_by_all THEN <<res.chat_id, res.msg_id>> ELSE None

\* The storage calls a run of mdn_from_ext can reach, whichever of them fail.
MdnReachable(from_id, rfc724_mid) ==
  IF MdnRejected(from_id, rfc724_mid) THEN {}
  ELSE IF SelectMdnMsg(rfc724_mid) = None THEN {"select"}
  ELSE IF ~can_fail(SelectMdnMsg(rfc724_mid).msg_state) THEN {"select"}
  ELSE IF SelectMdnMsg(rfc724_mid).chat_type = "Single"
  THEN SqlCalls \ {"count"}
  ELSE SqlCalls

\* The storage calls a run of mdn_from_ext issues when those in fail fail.
MdnIssued(from_id, rfc724_mid, fail) ==
  IF MdnRejected(from_id, rfc724_mid) THEN {}
  ELSE IF "select" \in fail \/ SelectMdnMsg(rfc724_mid) = None THEN {"select"}
  ELSE LET res == SelectMdnMsg(rfc724_mid)
           already == "exists" \notin fail
                        /\ MdnAlreadyInTable(msgs_mdns, res.msg_id, from_id)
           table == MdnEvidence(res, from_id, 1, fail)
       IN IF ~can_fail(res.msg_state) THEN {"select"}
          ELSE {"select", "exists"}
                 \cup (IF already THEN {} ELSE {"insert"})
                 \cup (IF res.chat_type = "Single" THEN {} ELSE {"count"})
                 \cup (IF MdnReadByAll(res, table, fail) THEN {"update"} ELSE {})

mdn_from_ext(from_id, rfc724_mid, timestamp_sent, fail) ==
  LET res == IF "select" \in fail THEN None ELSE SelectMdnMsg(rfc724_mid)
  IN /\ call' = [from_id |-> from_id, rfc724_mid |-> rfc724_mid,
                 timestamp_sent |-> timestamp_sent, fail |-> fail]
     /\ UNCHANGED chats
     /\ IF MdnRejected(from_id, rfc724_mid)
        THEN ret' = None /\ UNCHANGED <<msgs, msgs_mdns, mdn_moved>>
        ELSE IF res = None
        THEN ret' = None /\ UNCHANGED <<msgs, msgs_mdns, mdn_moved>>
        ELSE IF ~can_fail(res.msg_state)
        THEN ret' = MdnReturn(res, FALSE) /\ UNCHANGED <<msgs, msgs_mdns, mdn_moved>>
        ELSE LET table == MdnEvidence(res, from_id, timestamp_sent, fail)
                 read_by_all == MdnReadByAll(res, table, fail)
             IN /\ msgs_mdns' = table
                /\ IF read_by_all /\ "update" \notin fail
                   THEN /\ msgs' = update_msg_state(msgs, res.msg_id, OutMdnRcvd)
                        /\ mdn_moved' = mdn_moved \cup {res.msg_id}
                   ELSE UNCHANGED <<msgs, mdn_moved>>
                /\ ret' = MdnReturn(res, read_by_all)
     /\ returned' = IF ret' = None THEN returned ELSE returned \cup {ret'[2]}

MdnFromExt ==
  \E from_id \in FromIds, rfc724_mid \in Mids, timestamp_sent \in Timestamps :
    \E fail \in SUBSET MdnReachable(from_id, rfc724_mid) :
      /\ Cardinality(fail) <= MaxFail
      /\ fail \subseteq MdnIssued(from_id, rfc724_mid, fail)
      /\ mdn_from_ext(from_id, rfc724_mid, timestamp_sent, fail)
      /\ UNCHANGED <<op, del, pure, raceVars, bulkVars>>

\* --------------------------------------------------------- specification
NoCall == [from_id |-> 0, rfc724_mid |-> "", timestamp_sent |-> 0, fail |-> {}]
NoOp == [name |-> "none", id |-> 0, error |-> None, fail |-> {},
         result |-> "none", queried |-> FALSE, event |-> None,
         repeat |-> FALSE]
NoPure == [kind |-> "id", arg |-> 0, out |-> <<>>]
NoCallers == <<>>
NoBulk == [name |-> "none", msg_ids |-> <<>>, star |-> FALSE, fail |-> {},
           issued |-> <<>>, events |-> <<>>, result |-> "none"]

\* Row 10 carries correlation string "a"; a row received from another
\* contact sits in chat 10.
Init ==
  /\ msgs \in [MsgIds -> FreshRow]
  /\ \A i \in MsgIds :
       IF msgs[i].from_id = DC_CONTACT_ID_SELF
       THEN msgs[i].state \in SelfInitStates
       ELSE msgs[i].state \in OtherInitStates /\ msgs[i].chat_id = 10
  /\ msgs[DC_MSG_ID_LAST_SPECIAL + 1].rfc724_mid = "a"
  /\ chats \in [ChatIds -> [type : Chattype, member_cnt : 0..MaxMembers,
                             blocked : {"Not"}]]
  /\ chats[10].type = "Single"
  /\ chats[11].type = "Group"
  /\ chats[10].member_cnt = chats[11].member_cnt
  /\ msgs_mdns = {}
  /\ ret = None
  /\ call = NoCall
  /\ mdn_moved = {}
  /\ returned = {}
  /\ op = NoOp
  /\ del = None
  /\ pure = NoPure
  /\ pc = NoCallers
  /\ loc = NoCallers
  /\ jobs = <<>>
  /\ locations = {}
  /\ bulk = NoBulk

Next == MdnFromExt

Spec == Init /\ [][Next]_vars


\* ------------------------------------------------------------ pure functions
\* MsgId wraps a u32: the small ids, and one id far above them.
LargeId == 2^30
PureInputs == (0..MaxRawId) \cup {LargeId}

is_special_Strict(id) ==
  id < DC_MSG_ID_LAST_SPECIAL

\* MsgId::is_special: self.0 <= DC_MSG_ID_LAST_SPECIAL
is_special(id) ==
  id <= DC_MSG_ID_LAST_SPECIAL

\* MsgId::is_unset: self.0 == 0
is_unset(id) ==
  id = 0

\* out with the value v recorded for function f.
Applied(out, f, v) ==
  [g \in DOMAIN out \cup {f} |-> IF g = f THEN v ELSE out[g]]

IsSpecial ==
  /\ pure.kind = "id"
  /\ pure' = [pure EXCEPT !.out = Applied(@, "is_special", is_special(pure.arg))]
  /\ UNCHANGED <<msgs, chats, msgs_mdns, mdnVars, opVars, raceVars, bulkVars>>

IsUnset ==
  /\ pure.kind = "id"
  /\ pure' = [pure EXCEPT !.out = Applied(@, "is_unset", is_unset(pure.arg))]
  /\ UNCHANGED <<msgs, chats, msgs_mdns, mdnVars, opVars, raceVars, bulkVars>>

CanFail ==
  /\ pure.kind = "id"
  /\ pure.arg \in MessageState
  /\ pure' = [pure EXCEPT !.out = Applied(@, "can_fail", can_fail(pure.arg))]
  /\ UNCHANGED <<msgs, chats, msgs_mdns, mdnVars, opVars, raceVars, bulkVars>>

is_sent_FromFailed(state) ==
  state >= OutFailed

\* Message::is_sent: self.state as i32 >= MessageState::OutDelivered as i32
is_sent(state) ==
  state >= OutDelivered

IsSent ==
  /\ pure.kind = "id"
  /\ pure.arg \in MessageState
  /\ pure' = [pure EXCEPT !.out = Applied(@, "is_sent", is_sent(pure.arg))]
  /\ UNCHANGED <<msgs, chats, msgs_mdns, mdnVars, opVars, raceVars, bulkVars>>

\* ------------------------------------------------------------------ decoding
\* A stored integer is an i64: the u32 values and a negative one.
RawInputs == {-1} \cup PureInputs

\* The codes of MessengerMessage: No, Yes, Reply; its default is No.
MessengerMessage == {0, 1, 2}
MessengerMessageDefault == 0

\* MsgId derives Default: MsgId(0).
MsgIdDefault == 0

\* FromPrimitive::from_i64 of an enum: the variant with that code, if any.
\* A variant is written as its code.
from_i64_enum(codes, raw) ==
  IF raw \in codes THEN <<raw>> ELSE None

\* FromPrimitive::from_i64 of MsgId(u32): any value a u32 can hold.
from_i64_u32(raw) ==
  IF raw >= 0 THEN <<raw>> ELSE None

\* Decode generated by derive(Sqlx):
\* Ok(num_traits::FromPrimitive::from_i64(raw).unwrap_or_default())
sqlx_decode(from, default) ==
  IF from = None THEN [result |-> "Ok", value |-> default]
  ELSE [result |-> "Ok", value |-> from[1]]

\* MessageState derives sqlx::Type, not Sqlx: its Decode is the one the sqlx
\* library generates for a #[repr(i32)] enum, which matches the integer
\* against the variants' codes and returns a decode error for any other.
type_decode(codes, raw) ==
  IF raw \in codes THEN [result |-> "Ok", value |-> raw]
  ELSE [result |-> "Err", value |-> Undefined]

DecodeMsgId ==
  /\ pure.kind = "raw"
  /\ pure' = [pure EXCEPT !.out = Applied(@, "decode_MsgId",
                 sqlx_decode(from_i64_u32(pure.arg), MsgIdDefault))]
  /\ UNCHANGED <<msgs, chats, msgs_mdns, mdnVars, opVars, raceVars, bulkVars>>

DecodeMessengerMessage ==
  /\ pure.kind = "raw"
  /\ pure' = [pure EXCEPT !.out = Applied(@, "decode_MessengerMessage",
                 sqlx_decode(from_i64_enum(MessengerMessage, pure.arg),
                             MessengerMessageDefault))]
  /\ UNCHANGED <<msgs, chats, msgs_mdns, mdnVars, opVars, raceVars, bulkVars>>

DecodeMessageState ==
  /\ pure.kind = "raw"
  /\ pure' = [pure EXCEPT !.out = Applied(@, "decode_MessageState",
                 type_decode(MessageState, pure.arg))]
  /\ UNCHANGED <<msgs, chats, msgs_mdns, mdnVars, opVars, raceVars, bulkVars>>

\* -------------------------------------------------------------- get_filemime
\* A path is its file name and its extension; None is a path without one.
Extensions ==
  {"mp3", "aac", "mp4", "webm", "jpg", "jpeg", "jpe", "png", "webp", "gif",
   "vcf", "vcard", "JPG", "bar"}
Paths == [name : {"foo"}, ext : {None} \cup {<<e>> : e \in Extensions}]

\* str::to_lowercase, on the extensions above.
to_lowercase(e) ==
  IF e = "JPG" THEN "jpg" ELSE e

\* guess_msgtype_from_suffix: (Viewtype, mime type) for a known extension.
guess_msgtype_from_suffix(path) ==
  IF path.ext = None THEN None
  ELSE LET extension == to_lowercase(path.ext[1])
       IN CASE extension = "mp3" -> <<"Audio", "audio/mpeg">>
            [] extension = "aac" -> <<"Audio", "audio/aac">>
            [] extension = "mp4" -> <<"Video", "video/mp4">>
            [] extension = "webm" -> <<"Video", "video/webm">>
            [] extension = "jpg" -> <<"Image", "image/jpeg">>
            [] extension = "jpeg" -> <<"Image", "image/jpeg">>
            [] extension = "jpe" -> <<"Image", "image/jpeg">>
            [] extension = "png" -> <<"Image", "image/png">>
            [] extension = "webp" -> <<"Image", "image/webp">>
            [] extension = "gif" -> <<"Gif", "image/gif">>
            [] extension = "vcf" -> <<"File", "text/vcard">>
            [] extension = "vcard" -> <<"File", "text/vcard">>
            [] OTHER -> None

\* The parameters get_filemime reads: Param::MimeType and Param::File,
\* each None when the key is not set.
MimeParams == [mimetype : {None, <<"text/plain">>},
               file : {None} \cup {<<f>> : f \in Paths}]

get_filemime_FileFirst(param) ==
  IF param.file # None
  THEN IF guess_msgtype_from_suffix(param.file[1]) # None
       THEN <<guess_msgtype_from_suffix(param.file[1])[2]>>
       ELSE <<"application/octet-stream">>
  ELSE IF param.mimetype # None
  THEN <<param.mimetype[1]>>
  ELSE None

\* Message::get_filemime
get_filemime(param) ==
  IF param.mimetype # None
  THEN <<param.mimetype[1]>>
  ELSE IF param.file # None
  THEN IF guess_msgtype_from_suffix(param.file[1]) # None
       THEN <<guess_msgtype_from_suffix(param.file[1])[2]>>
       ELSE <<"application/octet-stream">>
  ELSE None

GetFilemime ==
  /\ pure.kind = "param"
  /\ pure' = [pure EXCEPT !.out = Applied(@, "get_filemime", get_filemime(pure.arg))]
  /\ UNCHANGED <<msgs, chats, msgs_mdns, mdnVars, opVars, raceVars, bulkVars>>

\* ---------------------------------------------------- get_summarytext_by_raw
\* A string is a sequence of pieces: words, white space, the en dash.
\* A stock string is written as the name of its StockMessage.
SUMMARY_CHARACTERS == 160
Viewtype ==
  {"Unknown", "Text", "Image", "Gif", "Sticker", "Audio", "Voice", "Video", "File"}
SystemMessage == {"Unknown", "AutocryptSetupMessage", "LocationOnly"}
LongText == "lorem"
SummaryTexts ==
  {None, << <<>> >>, << <<"bla", " ", "bla">> >>, << <<"bla", "\n", " ", "bla">> >>,
   << <<LongText>> >>}
SummaryFiles == {None, <<"foo.bar">>, <<"..">>}
SummaryArgs ==
  [viewtype : Viewtype, text : SummaryTexts, file : SummaryFiles,
   cmd : SystemMessage, approx_characters : {50, SUMMARY_CHARACTERS}]

\* The number of characters of a piece.
CharLen(piece) ==
  CASE piece = LongText -> 200
    [] piece \in {" ", "\n", "-"} -> 1
    [] piece = "bla" -> 3
    [] piece = "[...]" -> 5
    [] piece = "foo.bar" -> 7
    [] piece = "ErrFileName" -> 11
    [] OTHER -> 13

RECURSIVE CharCount(_)
CharCount(str) ==
  IF str = <<>> THEN 0 ELSE CharLen(Head(str)) + CharCount(Tail(str))

\* The longest run of leading pieces of str with at most n characters.
RECURSIVE CutAt(_, _)
CutAt(str, n) ==
  IF str = <<>> \/ CharLen(Head(str)) > n THEN <<>>
  ELSE <<Head(str)>> \o CutAt(Tail(str), n - CharLen(Head(str)))

\* dc_truncate: a string longer than the budget and the ellipsis is cut
\* and gets the ellipsis.
dc_truncate(buf, approx_chars) ==
  IF approx_chars > 0 /\ CharCount(buf) > approx_chars + CharLen("[...]")
  THEN CutAt(buf, approx_chars) \o <<"[...]">>
  ELSE buf

IsWhitespace(piece) == piece \in {" ", "\n"}

\* UNWRAP_RE.replace_all(summary, " "): each run of white space becomes
\* one blank.
RECURSIVE Unwrap(_)
Unwrap(str) ==
  IF str = <<>> THEN <<>>
  ELSE IF ~IsWhitespace(Head(str)) THEN <<Head(str)>> \o Unwrap(Tail(str))
  ELSE IF Tail(str) # <<>> /\ IsWhitespace(Head(Tail(str))) THEN Unwrap(Tail(str))
  ELSE <<" ">> \o Unwrap(Tail(str))

\* context.stock_str(StockMessage::...)
stock_str(id) == <<id>>

\* format!("{} \u{2013} {}", a, b)
FormatDash(a, b) == a \o <<" ", "-", " ">> \o b

\* param.get_path(Param::File).unwrap_or(None).and_then(file_name)
\*   .unwrap_or_else(|| "ErrFileName")
SummaryFileName(file) ==
  IF file = None \/ file[1] = ".." THEN <<"ErrFileName">> ELSE <<file[1]>>

\* The match on viewtype: the prefix and whether the text is appended.
SummaryPrefix_AudioNoName(a) ==
  CASE a.viewtype = "Image" -> [prefix |-> stock_str("Image"), append_text |-> TRUE]
    [] a.viewtype = "Gif" -> [prefix |-> stock_str("Gif"), append_text |-> TRUE]
    [] a.viewtype = "Sticker" -> [prefix |-> stock_str("Sticker"), append_text |-> TRUE]
    [] a.viewtype = "Video" -> [prefix |-> stock_str("Video"), append_text |-> TRUE]
    [] a.viewtype = "Voice" -> [prefix |-> stock_str("VoiceMessage"), append_text |-> TRUE]
    [] a.viewtype = "Audio" -> [prefix |-> stock_str("Audio"), append_text |-> TRUE]
    [] a.viewtype = "File" ->
         IF a.cmd = "AutocryptSetupMessage"
         THEN [prefix |-> stock_str("AcSetupMsgSubject"), append_text |-> FALSE]
         ELSE [prefix |-> FormatDash(stock_str("File"), SummaryFileName(a.file)),
               append_text |-> TRUE]
    [] OTHER ->
         IF a.cmd # "LocationOnly"
         THEN [prefix |-> <<>>, append_text |-> TRUE]
         ELSE [prefix |-> stock_str("Location"), append_text |-> FALSE]

SummaryPrefix(a) ==
  CASE a.viewtype = "Image" -> [prefix |-> stock_str("Image"), append_text |-> TRUE]
    [] a.viewtype = "Gif" -> [prefix |-> stock_str("Gif"), append_text |-> TRUE]
    [] a.viewtype = "Sticker" -> [prefix |-> stock_str("Sticker"), append_text |-> TRUE]
    [] a.viewtype = "Video" -> [prefix |-> stock_str("Video"), append_text |-> TRUE]
    [] a.viewtype = "Voice" -> [prefix |-> stock_str("VoiceMessage"), append_text |-> TRUE]
    [] a.viewtype \in {"Audio", "File"} ->
         IF a.cmd = "AutocryptSetupMessage"
         THEN [prefix |-> stock_str("AcSetupMsgSubject"), append_text |-> FALSE]
         ELSE [prefix |-> FormatDash(stock_str(IF a.viewtype = "Audio"
                                               THEN "Audio" ELSE "File"),
                                     SummaryFileName(a.file)),
               append_text |-> TRUE]
    [] OTHER ->
         IF a.cmd # "LocationOnly"
         THEN [prefix |-> <<>>, append_text |-> TRUE]
         ELSE [prefix |-> stock_str("Location"), append_text |-> FALSE]

get_summarytext_by_raw(a) ==
  LET p == SummaryPrefix(a)
      prefix == p.prefix
      summary == IF a.text # None
                 THEN IF a.text[1] = <<>> THEN prefix
                      ELSE IF prefix = <<>>
                      THEN dc_truncate(a.text[1], a.approx_characters)
                      ELSE dc_truncate(FormatDash(prefix, a.text[1]),
                                       a.approx_characters)
                 ELSE prefix
  IN IF ~p.append_text THEN prefix ELSE Unwrap(summary)

GetSummarytextByRaw ==
  /\ pure.kind = "summary"
  /\ pure' = [pure EXCEPT !.out = Applied(@, "get_summarytext_by_raw",
                                          get_summarytext_by_raw(pure.arg))]
  /\ UNCHANGED <<msgs, chats, msgs_mdns, mdnVars, opVars, raceVars, bulkVars>>

\* The values the pure functions are applied to, by kind: "id" is a u32
\* (a MsgId, or the code of a MessageState), "raw" a stored integer,
\* "param" the parameters of a message, "summary" the arguments of
\* get_summarytext_by_raw.
PureArgs ==
  \/ pure \in [kind : {"id"}, arg : PureInputs, out : {<<>>}]
  \/ pure \in [kind : {"raw"}, arg : RawInputs, out : {<<>>}]
  \/ pure \in [kind : {"param"}, arg : MimeParams, out : {<<>>}]
  \/ pure \in [kind : {"summary"}, arg : SummaryArgs, out : {<<>>}]

\* No table is read by the pure functions: the storage is empty.
InitPure ==
  /\ PureArgs
  /\ msgs = <<>>
  /\ chats = [c \in ChatIds |-> [type |-> "Single", member_cnt |-> 0,
                                  blocked |-> "Not"]]
  /\ msgs_mdns = {}
  /\ ret = None
  /\ call = NoCall
  /\ mdn_moved = {}
  /\ returned = {}
  /\ op = NoOp
  /\ del = None
  /\ pc = NoCallers
  /\ loc = NoCallers
  /\ jobs = <<>>
  /\ locations = {}
  /\ bulk = NoBulk

NextPure ==
  \/ IsSpecial
  \/ IsUnset
  \/ CanFail
  \/ IsSent
  \/ DecodeMsgId
  \/ DecodeMessengerMessage
  \/ DecodeMessageState
  \/ GetFilemime
  \/ GetSummarytextByRaw

SpecPure == InitPure /\ [][NextPure]_vars

\* ------------------------------------------------------------ row operations
\* The ids the operations are called with: the unset id, the last special
\* id, and the ids of stored rows.
OpIds == {0, DC_MSG_ID_LAST_SPECIAL} \cup MsgIds

\* The call before was the same operation on the same id and returned Ok.
Repeat(name, id) ==
  op.name = name /\ op.id = id /\ op.result = "Ok"

load_from_db_UnsetOnly(table, id, fail) ==
  IF is_unset(id)
  THEN [result |-> "Err", queried |-> FALSE, msg |-> None]
  ELSE IF "load" \in fail \/ id \notin DOMAIN table
  THEN [result |-> "Err", queried |-> TRUE, msg |-> None]
  ELSE [result |-> "Ok", queried |-> TRUE, msg |-> table[id]]

\* Message::load_from_db: ensure!(!id.is_special()), then SELECT ... FROM
\* msgs m ... WHERE m.id=?; a failed query and a missing row are errors.
load_from_db(table, id, fail) ==
  IF is_special(id)
  THEN [result |-> "Err", queried |-> FALSE, msg |-> None]
  ELSE IF "load" \in fail \/ id \notin DOMAIN table
  THEN [result |-> "Err", queried |-> TRUE, msg |-> None]
  ELSE [result |-> "Ok", queried |-> TRUE, msg |-> table[id]]

LoadFromDb ==
  \E id \in OpIds, fail \in SUBSET {"load"} :
    LET r == load_from_db(msgs, id, fail)
    IN /\ del = None
       /\ fail # {} => r.queried
       /\ op' = [NoOp EXCEPT !.name = "load_from_db", !.id = id, !.fail = fail,
                              !.result = r.result, !.queried = r.queried]
       /\ UNCHANGED <<msgs, chats, msgs_mdns, mdnVars, del, pure, raceVars, bulkVars>>

is_trash(chat_id) ==
  chat_id = DC_CHAT_ID_TRASH

\* exists: false for a special id; SELECT chat_id FROM msgs WHERE id=?;
\* a row outside the trash chat exists, anything else does not.
exists_QueriesSpecial(table, msg_id, fail) ==
  IF "select_chat_id" \in fail \/ msg_id \notin DOMAIN table
  THEN [result |-> "false", queried |-> TRUE]
  ELSE [result |-> IF is_trash(table[msg_id].chat_id) THEN "false" ELSE "true",
        queried |-> TRUE]

exists_IgnoresTrash(table, msg_id, fail) ==
  IF is_special(msg_id)
  THEN [result |-> "false", queried |-> FALSE]
  ELSE IF "select_chat_id" \in fail \/ msg_id \notin DOMAIN table
  THEN [result |-> "false", queried |-> TRUE]
  ELSE [result |-> "true", queried |-> TRUE]

exists(table, msg_id, fail) ==
  IF is_special(msg_id)
  THEN [result |-> "false", queried |-> FALSE]
  ELSE IF "select_chat_id" \in fail \/ msg_id \notin DOMAIN table
  THEN [result |-> "false", queried |-> TRUE]
  ELSE [result |-> IF is_trash(table[msg_id].chat_id) THEN "false" ELSE "true",
        queried |-> TRUE]

Exists ==
  \E id \in OpIds, fail \in SUBSET {"select_chat_id"} :
    LET r == exists(msgs, id, fail)
    IN /\ del = None
       /\ fail # {} => r.queried
       /\ op' = [NoOp EXCEPT !.name = "exists", !.id = id, !.fail = fail,
                              !.result = r.result, !.queried = r.queried]
       /\ UNCHANGED <<msgs, chats, msgs_mdns, mdnVars, del, pure, raceVars, bulkVars>>

trash_KeepsRaw(table, id) ==
  IF id \in DOMAIN table
  THEN [table EXCEPT ![id].chat_id = DC_CHAT_ID_TRASH, ![id].txt = ""]
  ELSE table

\* UPDATE msgs SET chat_id=?, txt='', txt_raw='' WHERE id=?
trash(table, id) ==
  IF id \in DOMAIN table
  THEN [table EXCEPT ![id].chat_id = DC_CHAT_ID_TRASH, ![id].txt = "",
                     ![id].txt_raw = ""]
  ELSE table

Trash ==
  \E id \in OpIds, fail \in SUBSET {"trash"} :
    /\ del = None
    /\ msgs' = IF fail = {} THEN trash(msgs, id) ELSE msgs
    /\ op' = [NoOp EXCEPT !.name = "trash", !.id = id, !.fail = fail,
                           !.repeat = Repeat("trash", id),
                           !.result = IF fail = {} THEN "Ok" ELSE "Err",
                           !.queried = TRUE]
    /\ UNCHANGED <<chats, msgs_mdns, mdnVars, del, pure, raceVars, bulkVars>>

unlink_ByMid(table, id) ==
  IF id \in DOMAIN table
  THEN [i \in DOMAIN table |->
          IF table[i].rfc724_mid = table[id].rfc724_mid
          THEN [table[i] EXCEPT !.server_folder = "", !.server_uid = 0]
          ELSE table[i]]
  ELSE table

\* UPDATE msgs SET server_folder='', server_uid=0 WHERE id=?
unlink(table, id) ==
  IF id \in DOMAIN table
  THEN [table EXCEPT ![id].server_folder = "", ![id].server_uid = 0]
  ELSE table

Unlink ==
  \E id \in OpIds, fail \in SUBSET {"unlink"} :
    /\ del = None
    /\ msgs' = IF fail = {} THEN unlink(msgs, id) ELSE msgs
    /\ op' = [NoOp EXCEPT !.name = "unlink", !.id = id, !.fail = fail,
                           !.repeat = Repeat("unlink", id),
                           !.result = IF fail = {} THEN "Ok" ELSE "Err",
                           !.queried = TRUE]
    /\ UNCHANGED <<chats, msgs_mdns, mdnVars, del, pure, raceVars, bulkVars>>

\* ------------------------------------------------------------ delete_from_db
DeleteStatements_MsgFirst ==
  <<"msgs", "msgs_mdns">>

\* The tables delete_from_db deletes from, in the order of its statements.
DeleteStatements ==
  <<"msgs_mdns", "msgs">>

\* DELETE FROM msgs_mdns WHERE msg_id=?;  /  DELETE FROM msgs WHERE id=?;
DeleteFrom(stmt, id) ==
  IF stmt = "msgs_mdns"
  THEN /\ msgs_mdns' = {r \in msgs_mdns : r.msg_id # id}
       /\ UNCHANGED msgs
  ELSE /\ msgs' = [i \in DOMAIN msgs \ {id} |-> msgs[i]]
       /\ UNCHANGED msgs_mdns

\* The first statement; on error the call returns the error at once.
DeleteFromDbFirst ==
  \E id \in OpIds, ok \in BOOLEAN :
    /\ del = None
    /\ IF ok
       THEN /\ DeleteFrom(DeleteStatements[1], id)
            /\ del' = <<id>>
            /\ op' = [NoOp EXCEPT !.name = "delete_from_db", !.id = id,
                                   !.result = "running", !.queried = TRUE]
       ELSE /\ UNCHANGED <<msgs, msgs_mdns, del>>
            /\ op' = [NoOp EXCEPT !.name = "delete_from_db", !.id = id,
                                   !.fail = {DeleteStatements[1]},
                                   !.result = "Err", !.queried = TRUE]
    /\ UNCHANGED <<chats, mdnVars, pure, raceVars, bulkVars>>

\* The second statement.
DeleteFromDbSecond ==
  \E ok \in BOOLEAN :
    /\ del # None
    /\ IF ok
       THEN /\ DeleteFrom(DeleteStatements[2], del[1])
            /\ op' = [op EXCEPT !.result = "Ok"]
       ELSE /\ UNCHANGED <<msgs, msgs_mdns>>
            /\ op' = [op EXCEPT !.fail = {DeleteStatements[2]}, !.result = "Err"]
    /\ del' = None
    /\ UNCHANGED <<chats, mdnVars, pure, raceVars, bulkVars>>

\* ------------------------------------------------------------ set_msg_failed
FailedMsg_KeepsParam(msg, error) ==
  [msg EXCEPT !.state = IF can_fail(msg.state) THEN OutFailed ELSE @]

\* The loaded message after the two if-blocks of set_msg_failed.
FailedMsg(msg, error) ==
  [msg EXCEPT !.state = IF can_fail(msg.state) THEN OutFailed ELSE @,
              !.param = IF error # None THEN error[1] ELSE @]

\* UPDATE msgs SET state=?, param=? WHERE id=?;
UpdateFailed(table, msg_id, msg) ==
  IF msg_id \in DOMAIN table
  THEN [table EXCEPT ![msg_id].state = msg.state, ![msg_id].param = msg.param]
  ELSE table

Errors == {None, <<"err">>}

SetMsgFailed ==
  \E msg_id \in OpIds, error \in Errors, fail \in SUBSET {"load", "update"} :
    LET r == load_from_db(msgs, msg_id, fail)
        msg == FailedMsg(r.msg, error)
        written == r.result = "Ok" /\ "update" \notin fail
    IN /\ del = None
       /\ "load" \in fail => r.queried
       /\ "update" \in fail => r.result = "Ok" /\ "load" \notin fail
       /\ msgs' = IF written THEN UpdateFailed(msgs, msg_id, msg) ELSE msgs
       /\ op' = [NoOp EXCEPT !.name = "set_msg_failed", !.id = msg_id,
                              !.error = error, !.fail = fail,
                              !.result = IF written THEN "Ok" ELSE "Err",
                              !.queried = r.queried,
                              !.event = IF written
                                        THEN <<"MsgFailed", msg.chat_id, msg_id>>
                                        ELSE None]
       /\ UNCHANGED <<chats, msgs_mdns, mdnVars, del, pure, raceVars, bulkVars>>

\* Two self-sent rows in chat 10; a delivered row has evidence from the
\* first contact.
InitOps ==
  /\ msgs \in [MsgIds -> FreshRow]
  /\ \A i \in MsgIds :
       /\ msgs[i].from_id = DC_CONTACT_ID_SELF
       /\ msgs[i].chat_id = 10
       /\ msgs[i].state \in SelfInitStates
  /\ msgs[DC_MSG_ID_LAST_SPECIAL + 1].rfc724_mid = "a"
  /\ msgs[DC_MSG_ID_LAST_SPECIAL + 2].state = OutDelivered
  /\ chats = [c \in ChatIds |-> [type |-> "Group", member_cnt |-> MaxMembers,
                                  blocked |-> "Not"]]
  /\ msgs_mdns = {[msg_id |-> i, contact_id |-> DC_MSG_ID_LAST_SPECIAL + 1,
                   timestamp_sent |-> 1] : i \in {j \in MsgIds : msgs[j].state = OutDelivered}}
  /\ ret = None
  /\ call = NoCall
  /\ mdn_moved = {}
  /\ returned = {}
  /\ op = NoOp
  /\ del = None
  /\ pure = NoPure
  /\ pc = NoCallers
  /\ loc = NoCallers
  /\ jobs = <<>>
  /\ locations = {}
  /\ bulk = NoBulk

NextOps ==
  \/ LoadFromDb
  \/ Exists
  \/ Trash
  \/ Unlink
  \/ DeleteFromDbFirst
  \/ DeleteFromDbSecond
  \/ SetMsgFailed

SpecOps == InitOps /\ [][NextOps]_vars

\* ------------------------------------------------------- concurrent callers
\* Two callers of mdn_from_ext and one caller of set_msg_failed run against
\* the same tables; a statement is atomic, a sequence of statements is not.
MdnCallers == {"m1", "m2"}
FailCaller == "f"
Callers == MdnCallers \cup {FailCaller}

\* Receipts of different callers carry different timestamps.
RaceTimestamp(p) == IF p = "m1" THEN 1 ELSE 2

\* inserted: the caller has executed the INSERT (ghost).
NoLocals == [from_id |-> 0, timestamp_sent |-> 0, res |-> None, ist_cnt |-> -1,
             inserted |-> FALSE, msg_id |-> 0, msg |-> None, ret |-> None,
             event |-> None]

\* What no concurrent caller writes.
RaceFrame == UNCHANGED <<chats, ret, call, op, del, pure, bulkVars>>

\* The caller returns without a pair.
RaceReturnNone(p) ==
  /\ pc' = [pc EXCEPT ![p] = "done"]
  /\ UNCHANGED <<msgs, msgs_mdns, mdn_moved, returned>>

\* mdn_from_ext up to the SELECT of the message and the can_fail test.
RaceSelect(p) ==
  \E from_id \in RealContacts, rfc724_mid \in StoredMids :
    LET res == SelectMdnMsg(rfc724_mid)
    IN /\ pc[p] = "idle"
       /\ loc' = [loc EXCEPT ![p] = [NoLocals EXCEPT !.from_id = from_id,
                                       !.timestamp_sent = RaceTimestamp(p),
                                       !.res = res]]
       /\ IF res = None \/ ~can_fail(res.msg_state)
          THEN RaceReturnNone(p)
          ELSE /\ pc' = [pc EXCEPT ![p] = "exists"]
               /\ UNCHANGED <<msgs, msgs_mdns, mdn_moved, returned>>
       /\ RaceFrame

\* The SELECT that looks for the contact's evidence row.
RaceExists(p) ==
  /\ pc[p] = "exists"
  /\ pc' = [pc EXCEPT ![p] =
              IF MdnAlreadyInTable(msgs_mdns, loc[p].res.msg_id, loc[p].from_id)
              THEN "count" ELSE "insert"]
  /\ UNCHANGED <<msgs, msgs_mdns, mdn_moved, returned, loc>>
  /\ RaceFrame

\* The INSERT; an error of it is swallowed.
RaceInsert(p) ==
  /\ pc[p] = "insert"
  /\ msgs_mdns' = InsertMdn(msgs_mdns, loc[p].res.msg_id, loc[p].from_id,
                            loc[p].timestamp_sent)
  /\ loc' = [loc EXCEPT ![p].inserted = TRUE]
  /\ pc' = [pc EXCEPT ![p] = "count"]
  /\ UNCHANGED <<msgs, mdn_moved, returned>>
  /\ RaceFrame

\* The evaluation of read_by_all; a group counts the evidence rows.
RaceCount(p) ==
  /\ pc[p] = "count"
  /\ loc' = [loc EXCEPT ![p].ist_cnt =
                IF loc[p].res.chat_type = "Single" THEN @
                ELSE CountMdns(msgs_mdns, loc[p].res.msg_id)]
  /\ IF MdnReadByAll(loc[p].res, msgs_mdns, {})
     THEN /\ pc' = [pc EXCEPT ![p] = "update"]
          /\ UNCHANGED <<msgs, msgs_mdns, mdn_moved, returned>>
     ELSE RaceReturnNone(p)
  /\ RaceFrame

\* update_msg_state(OutMdnRcvd) and the return of the pair.
RaceUpdate(p) ==
  /\ pc[p] = "update"
  /\ msgs' = update_msg_state(msgs, loc[p].res.msg_id, OutMdnRcvd)
  /\ mdn_moved' = mdn_moved \cup {loc[p].res.msg_id}
  /\ returned' = returned \cup {loc[p].res.msg_id}
  /\ loc' = [loc EXCEPT ![p].ret = MdnReturn(loc[p].res, TRUE)]
  /\ pc' = [pc EXCEPT ![p] = "done"]
  /\ UNCHANGED msgs_mdns
  /\ RaceFrame

\* set_msg_failed up to the UPDATE: load_from_db and the two if-blocks.
RaceFailLoad ==
  \E msg_id \in MsgIds, error \in Errors :
    LET r == load_from_db(msgs, msg_id, {})
    IN /\ pc[FailCaller] = "idle"
       /\ IF r.result = "Ok"
          THEN /\ loc' = [loc EXCEPT ![FailCaller] =
                            [NoLocals EXCEPT !.msg_id = msg_id,
                                             !.msg = FailedMsg(r.msg, error)]]
               /\ pc' = [pc EXCEPT ![FailCaller] = "write"]
          ELSE /\ loc' = [loc EXCEPT ![FailCaller] = [NoLocals EXCEPT !.msg_id = msg_id]]
               /\ pc' = [pc EXCEPT ![FailCaller] = "done"]
       /\ UNCHANGED <<msgs, msgs_mdns, mdn_moved, returned>>
       /\ RaceFrame

\* The UPDATE of set_msg_failed and the event that follows it.
RaceFailWrite ==
  /\ pc[FailCaller] = "write"
  /\ msgs' = UpdateFailed(msgs, loc[FailCaller].msg_id, loc[FailCaller].msg)
  /\ loc' = [loc EXCEPT ![FailCaller].event =
                <<"MsgFailed", loc[FailCaller].msg.chat_id, loc[FailCaller].msg_id>>]
  /\ pc' = [pc EXCEPT ![FailCaller] = "done"]
  /\ UNCHANGED <<msgs_mdns, mdn_moved, returned>>
  /\ RaceFrame

\* Two delivered self-sent rows in one chat, no evidence yet.
InitRace ==
  /\ \E c \in ChatIds :
       msgs = [i \in MsgIds |->
                [chat_id |-> c, from_id |-> DC_CONTACT_ID_SELF,
                 rfc724_mid |-> IF i = DC_MSG_ID_LAST_SPECIAL + 1 THEN "a" ELSE "b",
                 state |-> OutDelivered, txt |-> "hi", txt_raw |-> "hi",
                 server_folder |-> "INBOX", server_uid |-> 7, param |-> "",
                 starred |-> FALSE, location_id |-> 0]]
  /\ chats \in [ChatIds -> [type : Chattype, member_cnt : 0..MaxMembers,
                             blocked : {"Not"}]]
  /\ chats[10].type = "Single"
  /\ chats[11].type = "Group"
  /\ chats[10].member_cnt = chats[11].member_cnt
  /\ msgs_mdns = {}
  /\ ret = None
  /\ call = NoCall
  /\ mdn_moved = {}
  /\ returned = {}
  /\ op = NoOp
  /\ del = None
  /\ pure = NoPure
  /\ pc = [p \in Callers |-> "idle"]
  /\ loc = [p \in Callers |-> NoLocals]
  /\ jobs = <<>>
  /\ locations = {}
  /\ bulk = NoBulk

NextRace ==
  \/ \E p \in MdnCallers : RaceSelect(p)
  \/ \E p \in MdnCallers : RaceExists(p)
  \/ \E p \in MdnCallers : RaceInsert(p)
  \/ \E p \in MdnCallers : RaceCount(p)
  \/ \E p \in MdnCallers : RaceUpdate(p)
  \/ RaceFailLoad
  \/ RaceFailWrite

SpecRace == InitRace /\ [][NextRace]_vars

\* ------------------------------------------- delete_from_db against a receipt
\* One caller of delete_from_db runs against one caller of mdn_from_ext.
DelCaller == "d"
ReceiptCaller == "m1"

\* DELETE FROM msgs_mdns WHERE msg_id=?; an error ends the call.
RaceDeleteFirst ==
  \E id \in MsgIds, ok \in BOOLEAN :
    /\ pc[DelCaller] = "idle"
    /\ loc' = [loc EXCEPT ![DelCaller] = [NoLocals EXCEPT !.msg_id = id]]
    /\ IF ok
       THEN /\ DeleteFrom(DeleteStatements[1], id)
            /\ pc' = [pc EXCEPT ![DelCaller] = "second"]
       ELSE /\ UNCHANGED <<msgs, msgs_mdns>>
            /\ pc' = [pc EXCEPT ![DelCaller] = "failed"]
    /\ UNCHANGED <<mdn_moved, returned>>
    /\ RaceFrame

\* DELETE FROM msgs WHERE id=?; then Ok(()).
RaceDeleteSecond ==
  \E ok \in BOOLEAN :
    /\ pc[DelCaller] = "second"
    /\ IF ok
       THEN /\ DeleteFrom(DeleteStatements[2], loc[DelCaller].msg_id)
            /\ pc' = [pc EXCEPT ![DelCaller] = "done"]
       ELSE /\ UNCHANGED <<msgs, msgs_mdns>>
            /\ pc' = [pc EXCEPT ![DelCaller] = "failed"]
    /\ UNCHANGED <<mdn_moved, returned, loc>>
    /\ RaceFrame

\* Two delivered self-sent rows in one chat, no evidence yet.
InitDelRace ==
  /\ \E c \in ChatIds :
       msgs = [i \in MsgIds |->
                [chat_id |-> c, from_id |-> DC_CONTACT_ID_SELF,
                 rfc724_mid |-> IF i = DC_MSG_ID_LAST_SPECIAL + 1 THEN "a" ELSE "b",
                 state |-> OutDelivered, txt |-> "hi", txt_raw |-> "hi",
                 server_folder |-> "INBOX", server_uid |-> 7, param |-> "",
                 starred |-> FALSE, location_id |-> 0]]
  /\ chats \in [ChatIds -> [type : Chattype, member_cnt : 0..MaxMembers,
                             blocked : {"Not"}]]
  /\ chats[10].type = "Single"
  /\ chats[11].type = "Group"
  /\ chats[10].member_cnt = chats[11].member_cnt
  /\ msgs_mdns = {}
  /\ ret = None
  /\ call = NoCall
  /\ mdn_moved = {}
  /\ returned = {}
  /\ op = NoOp
  /\ del = None
  /\ pure = NoPure
  /\ pc = [p \in {ReceiptCaller, DelCaller} |-> "idle"]
  /\ loc = [p \in {ReceiptCaller, DelCaller} |-> NoLocals]
  /\ jobs = <<>>
  /\ locations = {}
  /\ bulk = NoBulk

NextDelRace ==
  \/ RaceSelect(ReceiptCaller)
  \/ RaceExists(ReceiptCaller)
  \/ RaceInsert(ReceiptCaller)
  \/ RaceCount(ReceiptCaller)
  \/ RaceUpdate(ReceiptCaller)
  \/ RaceDeleteFirst
  \/ RaceDeleteSecond

SpecDelRace == InitDelRace /\ [][NextDelRace]_vars

\* ---------------------------------------------------- receipts in any order
\* Receipts of the contacts arrive in any order, any number of times, and
\* the storage works. mdn_from_ext has no loop and waits for nothing but
\* its storage calls, so a receipt that has arrived is processed: every
\* receipt is weakly fair.
LiveMsg == DC_MSG_ID_LAST_SPECIAL + 1

LiveReceipt(from_id, rfc724_mid) ==
  \E timestamp_sent \in Timestamps :
    /\ mdn_from_ext(from_id, rfc724_mid, timestamp_sent, {})
    /\ UNCHANGED <<op, del, pure, raceVars, bulkVars>>

\* Row 10, in the group chat, carries correlation string "a"; row 11, in
\* the one-to-one chat, carries "b".
InitLive ==
  /\ msgs \in [MsgIds ->
       [chat_id : ChatIds, from_id : {DC_CONTACT_ID_SELF},
        rfc724_mid : StoredMids, state : {OutPending, OutDelivered},
        txt : {"hi"}, txt_raw : {"hi"}, server_folder : {"INBOX"},
        server_uid : {7}, param : {""}, starred : {FALSE},
        location_id : {0}]]
  /\ \A i \in MsgIds :
       /\ msgs[i].chat_id = IF i = LiveMsg THEN 11 ELSE 10
       /\ msgs[i].rfc724_mid = IF i = LiveMsg THEN "a" ELSE "b"
  /\ chats \in [ChatIds -> [type : Chattype, member_cnt : 0..MaxMembers,
                             blocked : {"Not"}]]
  /\ chats[10].type = "Single"
  /\ chats[11].type = "Group"
  /\ chats[10].member_cnt = chats[11].member_cnt
  /\ msgs_mdns = {}
  /\ ret = None
  /\ call = NoCall
  /\ mdn_moved = {}
  /\ returned = {}
  /\ op = NoOp
  /\ del = None
  /\ pure = NoPure
  /\ pc = NoCallers
  /\ loc = NoCallers
  /\ jobs = <<>>
  /\ locations = {}
  /\ bulk = NoBulk

NextLive ==
  \E from_id \in RealContacts, rfc724_mid \in StoredMids :
    LiveReceipt(from_id, rfc724_mid)

SpecLive ==
  /\ InitLive
  /\ [][NextLive]_vars
  /\ \A from_id \in RealContacts, rfc724_mid \in StoredMids :
       WF_vars(LiveReceipt(from_id, rfc724_mid))

\* ---------------------------------------------------------- bulk operations
\* The scheduler is a collaborator: it appends a job to the pending jobs,
\* and it removes the pending jobs of one action.
job_add(pending, action, foreign_id) ==
  Append(pending, [action |-> action, foreign_id |-> foreign_id])

kill_action(pending, action) ==
  SelectSeq(pending, LAMBDA j : j.action # action)

MaxIds == 2
MaxJobs == 4
BulkIds == {0} \cup MsgIds
IdLists == UNION {[1..n -> BulkIds] : n \in 0..MaxIds}

\* A statement a bulk call issued for the id at a position of its list.
Stmt(pos, stmt, id) == [pos |-> pos, stmt |-> stmt, id |-> id]

Failed(fail, pos, stmt) == <<pos, stmt>> \in fail

\* DELETE FROM locations WHERE independent = 1 AND id=?
delete_poi_location(locs, location_id) ==
  {l \in locs : ~(l.independent /\ l.id = location_id)}

delete_msgs_body_TrashFirst(st, pos, id, fail) ==
  LET trashed == IF Failed(fail, pos, "trash") THEN st.msgs
                 ELSE trash(st.msgs, id)
      load == load_from_db(trashed, id,
                           IF Failed(fail, pos, "load") THEN {"load"} ELSE {})
      poi == load.result = "Ok" /\ load.msg.location_id > 0
  IN [st EXCEPT
        !.msgs = trashed,
        !.locations = IF poi /\ ~Failed(fail, pos, "delete_poi")
                      THEN delete_poi_location(@, load.msg.location_id)
                      ELSE @,
        !.jobs = job_add(@, "DeleteMsgOnImap", id),
        !.issued = @ \o <<Stmt(pos, "trash", id)>>
                     \o (IF load.queried THEN <<Stmt(pos, "load", id)>>
                         ELSE <<>>)
                     \o (IF poi THEN <<Stmt(pos, "delete_poi", id)>> ELSE <<>>)
                     \o <<Stmt(pos, "job_add", id)>>]

\* The body of the loop of delete_msgs: load the message and, when it
\* loaded with a location bound to it, delete that location; trash the
\* row; add the job. No result is looked at.
delete_msgs_body(st, pos, id, fail) ==
  LET load == load_from_db(st.msgs, id,
                           IF Failed(fail, pos, "load") THEN {"load"} ELSE {})
      poi == load.result = "Ok" /\ load.msg.location_id > 0
  IN [st EXCEPT
        !.locations = IF poi /\ ~Failed(fail, pos, "delete_poi")
                      THEN delete_poi_location(@, load.msg.location_id)
                      ELSE @,
        !.msgs = IF Failed(fail, pos, "trash") THEN @ ELSE trash(@, id),
        !.jobs = job_add(@, "DeleteMsgOnImap", id),
        !.issued = @ \o (IF load.queried THEN <<Stmt(pos, "load", id)>>
                         ELSE <<>>)
                     \o (IF poi THEN <<Stmt(pos, "delete_poi", id)>> ELSE <<>>)
                     \o <<Stmt(pos, "trash", id), Stmt(pos, "job_add", id)>>]

RECURSIVE delete_msgs_loop(_, _, _, _)
\* for msg_id in msg_ids.iter()
delete_msgs_loop(st, msg_ids, pos, fail) ==
  IF pos > Len(msg_ids) THEN st
  ELSE delete_msgs_loop(delete_msgs_body(st, pos, msg_ids[pos], fail),
                        msg_ids, pos + 1, fail)

delete_msgs_end_KeepsPending(st, msg_ids) ==
  IF msg_ids = <<>> THEN st
  ELSE [st EXCEPT !.events = Append(@, "MsgsChanged"),
                  !.jobs = job_add(@, "Housekeeping", 0)]

\* if !msg_ids.is_empty(): emit MsgsChanged, kill the pending housekeeping
\* jobs, add one housekeeping job.
delete_msgs_end(st, msg_ids) ==
  IF msg_ids = <<>> THEN st
  ELSE [st EXCEPT !.events = Append(@, "MsgsChanged"),
                  !.jobs = job_add(kill_action(@, "Housekeeping"),
                                   "Housekeeping", 0)]

delete_msgs(table, locs, pending, msg_ids, fail) ==
  delete_msgs_end(
    delete_msgs_loop([msgs |-> table, locations |-> locs, jobs |-> pending,
                      issued |-> <<>>, events |-> <<>>], msg_ids, 1, fail),
    msg_ids)

\* The statements of a trace that can fail.
Fallible(issued) ==
  {<<issued[k].pos, issued[k].stmt>> :
     k \in {j \in DOMAIN issued : issued[j].stmt # "job_add"}}

BulkFails(stmts) ==
  {f \in SUBSET ((1..MaxIds) \X stmts) : Cardinality(f) <= MaxFail}

DeleteMsgs ==
  \E msg_ids \in IdLists, fail \in BulkFails({"load", "delete_poi", "trash"}) :
    /\ Len(jobs) + Len(msg_ids) <= MaxJobs
    /\ \A f \in fail : f[1] <= Len(msg_ids)
    /\ \E r \in {delete_msgs(msgs, locations, jobs, msg_ids, fail)} :
       /\ fail \subseteq Fallible(r.issued)
       /\ msgs' = r.msgs
       /\ locations' = r.locations
       /\ jobs' = r.jobs
       /\ bulk' = [NoBulk EXCEPT !.name = "delete_msgs", !.msg_ids = msg_ids,
                                  !.fail = fail, !.issued = r.issued,
                                  !.events = r.events, !.result = "()"]
       /\ UNCHANGED <<chats, msgs_mdns, mdnVars, opVars, pure, raceVars>>

\* A delivered row of chat 10, with or without a location bound to it.
LocatedRow ==
  [chat_id : {10}, from_id : {DC_CONTACT_ID_SELF}, rfc724_mid : {"a"},
   state : {OutDelivered}, txt : {"hi"}, txt_raw : {"hi"},
   server_folder : {"INBOX"}, server_uid : {7}, param : {""},
   starred : {FALSE}, location_id : LocationIds]

\* Two rows; the location a row can be bound to is stored, independent or
\* not; no job is pending.
InitDelete ==
  /\ msgs \in [MsgIds -> LocatedRow]
  /\ chats = [c \in ChatIds |-> [type |-> "Group", member_cnt |-> MaxMembers,
                                  blocked |-> "Not"]]
  /\ msgs_mdns = {}
  /\ ret = None
  /\ call = NoCall
  /\ mdn_moved = {}
  /\ returned = {}
  /\ op = NoOp
  /\ del = None
  /\ pure = NoPure
  /\ pc = NoCallers
  /\ loc = NoCallers
  /\ jobs = <<>>
  /\ locations \in {{[id |-> 5, independent |-> i]} : i \in BOOLEAN}
  /\ bulk = NoBulk

NextDelete == DeleteMsgs

SpecDelete == InitDelete /\ [][NextDelete]_vars

\* The query of markseen_msgs,
\*   SELECT m.state c.blocked FROM msgs m LEFT JOIN chats c
\*     ON c.id = m.chat_id WHERE m.id = ? AND m.chat_id > 9
\* has no comma between its two result columns: the statement does not
\* compile, and query_row_optional returns Err for every id, whatever
\* the tables hold.
markseen_query(table, chts, id) ==
  [result |-> "Err", row |-> None]

\* The body of the loop of markseen_msgs: only a row the query returned
\* is acted on. A row of a chat that is not blocked, in InFresh or
\* InNoticed, is written InSeen and gets a MarkseenMsgOnImap job; an
\* InFresh row of a blocked chat is written InNoticed. The result of
\* update_msg_state is not looked at.
markseen_msgs_body(st, chts, pos, id, fail) ==
  LET q == markseen_query(st.msgs, chts, id)
      found == q.result = "Ok" /\ q.row # None
      state == q.row[1].state
      blocked == q.row[1].blocked
      write(to) == IF Failed(fail, pos, "update") THEN st.msgs
                   ELSE update_msg_state(st.msgs, id, to)
  IN IF ~found
     THEN [st EXCEPT !.issued = Append(@, Stmt(pos, "select", id))]
     ELSE IF blocked = "Not"
     THEN IF state \in {InFresh, InNoticed}
          THEN [st EXCEPT
                  !.msgs = write(InSeen),
                  !.jobs = job_add(@, "MarkseenMsgOnImap", id),
                  !.send_event = TRUE,
                  !.issued = @ \o <<Stmt(pos, "select", id),
                                    Stmt(pos, "update", id),
                                    Stmt(pos, "job_add", id)>>]
          ELSE [st EXCEPT !.issued = Append(@, Stmt(pos, "select", id))]
     ELSE IF state = InFresh
     THEN [st EXCEPT
             !.msgs = write(InNoticed),
             !.send_event = TRUE,
             !.issued = @ \o <<Stmt(pos, "select", id),
                               Stmt(pos, "update", id)>>]
     ELSE [st EXCEPT !.issued = Append(@, Stmt(pos, "select", id))]

RECURSIVE markseen_msgs_loop(_, _, _, _, _)
\* for id in msg_ids.into_iter()
markseen_msgs_loop(st, chts, msg_ids, pos, fail) ==
  IF pos > Len(msg_ids) THEN st
  ELSE markseen_msgs_loop(
         markseen_msgs_body(st, chts, pos, msg_ids[pos], fail),
         chts, msg_ids, pos + 1, fail)

markseen_msgs_ResultBySendEvent(table, chts, pending, msg_ids, fail) ==
  LET st0 == [msgs |-> table, jobs |-> pending, issued |-> <<>>,
              events |-> <<>>, send_event |-> FALSE, result |-> "false"]
  IN IF msg_ids = <<>> THEN st0
     ELSE LET st == markseen_msgs_loop(st0, chts, msg_ids, 1, fail)
          IN [st EXCEPT !.events = IF st.send_event
                                   THEN Append(@, "MsgsChanged") ELSE @,
                        !.result = IF st.send_event THEN "true" ELSE "false"]

\* markseen_msgs: false for an empty list; else the loop, MsgsChanged when
\* send_event was set, and true.
markseen_msgs(table, chts, pending, msg_ids, fail) ==
  LET st0 == [msgs |-> table, jobs |-> pending, issued |-> <<>>,
              events |-> <<>>, send_event |-> FALSE, result |-> "false"]
  IN IF msg_ids = <<>> THEN st0
     ELSE LET st == markseen_msgs_loop(st0, chts, msg_ids, 1, fail)
          IN [st EXCEPT !.events = IF st.send_event
                                   THEN Append(@, "MsgsChanged") ELSE @,
                        !.result = "true"]

MarkseenMsgs ==
  \E msg_ids \in IdLists, fail \in BulkFails({"select", "update"}) :
    /\ Len(jobs) + Len(msg_ids) <= MaxJobs
    /\ \A f \in fail : f[1] <= Len(msg_ids)
    /\ \E r \in {markseen_msgs(msgs, chats, jobs, msg_ids, fail)} :
         /\ fail \subseteq Fallible(r.issued)
         /\ msgs' = r.msgs
         /\ jobs' = r.jobs
         /\ bulk' = [NoBulk EXCEPT !.name = "markseen_msgs",
                                    !.msg_ids = msg_ids, !.fail = fail,
                                    !.issued = r.issued, !.events = r.events,
                                    !.result = r.result]
         /\ UNCHANGED <<chats, msgs_mdns, mdnVars, opVars, pure, raceVars,
                        locations>>

\* UPDATE msgs SET starred=? WHERE id=?
set_starred(table, id, star) ==
  IF id \in DOMAIN table THEN [table EXCEPT ![id].starred = star] ELSE table

RECURSIVE star_msgs_loop_SkipsFailed(_, _, _, _, _)
star_msgs_loop_SkipsFailed(st, msg_ids, pos, star, fail) ==
  IF pos > Len(msg_ids) THEN [st EXCEPT !.result = "true"]
  ELSE star_msgs_loop_SkipsFailed(
         [st EXCEPT !.msgs = IF Failed(fail, pos, "update") THEN @
                             ELSE set_starred(@, msg_ids[pos], star),
                    !.issued = Append(@, Stmt(pos, "update", msg_ids[pos]))],
         msg_ids, pos + 1, star, fail)

RECURSIVE star_msgs_loop(_, _, _, _, _)
\* for msg_id in msg_ids.into_iter(): the UPDATE; return false when it is
\* an error; true after the loop.
star_msgs_loop(st, msg_ids, pos, star, fail) ==
  IF pos > Len(msg_ids) THEN [st EXCEPT !.result = "true"]
  ELSE IF Failed(fail, pos, "update")
  THEN [st EXCEPT !.issued = Append(@, Stmt(pos, "update", msg_ids[pos])),
                  !.result = "false"]
  ELSE star_msgs_loop(
         [st EXCEPT !.msgs = set_starred(@, msg_ids[pos], star),
                    !.issued = Append(@, Stmt(pos, "update", msg_ids[pos]))],
         msg_ids, pos + 1, star, fail)

\* star_msgs: false for an empty list, else the loop.
star_msgs(table, msg_ids, star, fail) ==
  LET st0 == [msgs |-> table, issued |-> <<>>, result |-> "false"]
  IN IF msg_ids = <<>> THEN st0
     ELSE star_msgs_loop(st0, msg_ids, 1, star, fail)

StarMsgs ==
  \E msg_ids \in IdLists, star \in BOOLEAN, fail \in BulkFails({"update"}) :
    /\ \A f \in fail : f[1] <= Len(msg_ids)
    /\ \E r \in {star_msgs(msgs, msg_ids, star, fail)} :
         /\ fail \subseteq Fallible(r.issued)
         /\ msgs' = r.msgs
         /\ bulk' = [NoBulk EXCEPT !.name = "star_msgs", !.msg_ids = msg_ids,
                                    !.star = star, !.fail = fail,
                                    !.issued = r.issued, !.result = r.result]
         /\ UNCHANGED <<chats, msgs_mdns, mdnVars, opVars, pure, raceVars,
                        jobs, locations>>

\* A received row, in a chat or in the trash chat.
InboundRow ==
  [chat_id : {10, DC_CHAT_ID_TRASH}, from_id : {DC_MSG_ID_LAST_SPECIAL + 1},
   rfc724_mid : {"a"}, state : {InFresh, InNoticed, InSeen}, txt : {"hi"},
   txt_raw : {"hi"}, server_folder : {"INBOX"}, server_uid : {7},
   param : {""}, starred : {FALSE}, location_id : {0}]

\* Two rows, received or sent; their chat is blocked or not; no job is
\* pending.
InitMarkseen ==
  /\ msgs \in [MsgIds -> InboundRow \cup
       [chat_id : {10}, from_id : {DC_CONTACT_ID_SELF}, rfc724_mid : {"a"},
        state : {OutDelivered}, txt : {"hi"}, txt_raw : {"hi"},
        server_folder : {"INBOX"}, server_uid : {7}, param : {""},
        starred : {FALSE}, location_id : {0}]]
  /\ msgs[DC_MSG_ID_LAST_SPECIAL + 1].chat_id = 10
  /\ \E b \in Blocked :
       chats = [c \in ChatIds |-> [type |-> "Single", member_cnt |-> 2,
                                   blocked |-> b]]
  /\ msgs_mdns = {}
  /\ ret = None
  /\ call = NoCall
  /\ mdn_moved = {}
  /\ returned = {}
  /\ op = NoOp
  /\ del = None
  /\ pure = NoPure
  /\ pc = NoCallers
  /\ loc = NoCallers
  /\ jobs = <<>>
  /\ locations = {}
  /\ bulk = NoBulk

NextMarkseen == MarkseenMsgs

SpecMarkseen == InitMarkseen /\ [][NextMarkseen]_vars

\* Two received rows, each starred or not.
InitStar ==
  /\ msgs \in [MsgIds ->
       [chat_id : {10}, from_id : {DC_MSG_ID_LAST_SPECIAL + 1},
        rfc724_mid : {"a"}, state : {InSeen}, txt : {"hi"},
        txt_raw : {"hi"}, server_folder : {"INBOX"}, server_uid : {7},
        param : {""}, starred : BOOLEAN, location_id : {0}]]
  /\ chats = [c \in ChatIds |-> [type |-> "Single", member_cnt |-> 2,
                                  blocked |-> "Not"]]
  /\ msgs_mdns = {}
  /\ ret = None
  /\ call = NoCall
  /\ mdn_moved = {}
  /\ returned = {}
  /\ op = NoOp
  /\ del = None
  /\ pure = NoPure
  /\ pc = NoCallers
  /\ loc = NoCallers
  /\ jobs = <<>>
  /\ locations = {}
  /\ bulk = NoBulk

NextStar == StarMsgs

SpecStar == InitStar /\ [][NextStar]_vars

\* ------------------------------------------------- concurrent delete_msgs
\* Two callers of delete_msgs run against the same tables; every storage
\* call and every scheduler call is a step of its own.
DelMsgsCallers == {"d1", "d2"}

DelMsgsFrame ==
  UNCHANGED <<chats, msgs_mdns, mdnVars, opVars, pure, bulk>>

\* The call, and the test of the loop for the first id.  The callers pass
\* the empty list or a list of one id; a caller's locals are msg_ids, the
\* position in the list, the location_id of the loaded message (0 when the
\* load failed) and the events emitted.
RaceDelMsgsCall(p) ==
  \E msg_ids \in {l \in IdLists : Len(l) <= 1} :
    /\ pc[p] = "idle"
    /\ loc' = [loc EXCEPT ![p] = [msg_ids |-> msg_ids, pos |-> 0,
                                    location_id |-> 0, events |-> <<>>]]
    /\ pc' = [pc EXCEPT ![p] = IF msg_ids = <<>> THEN "done" ELSE "load"]
    /\ UNCHANGED <<msgs, jobs, locations>>
    /\ DelMsgsFrame

\* Message::load_from_db for the next id.
RaceDelMsgsLoad(p) ==
  LET pos == loc[p].pos + 1
      r == load_from_db(msgs, loc[p].msg_ids[pos], {})
      location_id == IF r.result = "Ok" THEN r.msg.location_id ELSE 0
  IN /\ pc[p] = "load"
     /\ loc' = [loc EXCEPT ![p].pos = pos, ![p].location_id = location_id]
     /\ pc' = [pc EXCEPT ![p] = IF location_id > 0 THEN "poi" ELSE "trash"]
     /\ UNCHANGED <<msgs, jobs, locations>>
     /\ DelMsgsFrame

\* delete_poi_location
RaceDelMsgsPoi(p) ==
  /\ pc[p] = "poi"
  /\ locations' = delete_poi_location(locations, loc[p].location_id)
  /\ pc' = [pc EXCEPT ![p] = "trash"]
  /\ UNCHANGED <<msgs, jobs, loc>>
  /\ DelMsgsFrame

\* msg_id.trash
RaceDelMsgsTrash(p) ==
  /\ pc[p] = "trash"
  /\ msgs' = trash(msgs, loc[p].msg_ids[loc[p].pos])
  /\ pc' = [pc EXCEPT ![p] = "add"]
  /\ UNCHANGED <<jobs, locations, loc>>
  /\ DelMsgsFrame

\* job::add(DeleteMsgOnImap)
RaceDelMsgsAdd(p) ==
  /\ pc[p] = "add"
  /\ jobs' = job_add(jobs, "DeleteMsgOnImap", loc[p].msg_ids[loc[p].pos])
  /\ pc' = [pc EXCEPT ![p] = IF loc[p].pos < Len(loc[p].msg_ids)
                                THEN "load" ELSE "event"]
  /\ UNCHANGED <<msgs, locations, loc>>
  /\ DelMsgsFrame

\* emit_event(MsgsChanged)
RaceDelMsgsEvent(p) ==
  /\ pc[p] = "event"
  /\ loc' = [loc EXCEPT ![p].events = Append(@, "MsgsChanged")]
  /\ pc' = [pc EXCEPT ![p] = "kill"]
  /\ UNCHANGED <<msgs, jobs, locations>>
  /\ DelMsgsFrame

\* job::kill_action(Housekeeping)
RaceDelMsgsKill(p) ==
  /\ pc[p] = "kill"
  /\ jobs' = kill_action(jobs, "Housekeeping")
  /\ pc' = [pc EXCEPT ![p] = "housekeeping"]
  /\ UNCHANGED <<msgs, locations, loc>>
  /\ DelMsgsFrame

\* job::add(Housekeeping)
RaceDelMsgsHousekeeping(p) ==
  /\ pc[p] = "housekeeping"
  /\ jobs' = job_add(jobs, "Housekeeping", 0)
  /\ pc' = [pc EXCEPT ![p] = "done"]
  /\ UNCHANGED <<msgs, locations, loc>>
  /\ DelMsgsFrame

\* Two rows, each with or without a location bound to it; no job is
\* pending.
InitDelMsgsRace ==
  /\ msgs \in [MsgIds -> LocatedRow]
  /\ chats = [c \in ChatIds |-> [type |-> "Group", member_cnt |-> MaxMembers,
                                  blocked |-> "Not"]]
  /\ msgs_mdns = {}
  /\ ret = None
  /\ call = NoCall
  /\ mdn_moved = {}
  /\ returned = {}
  /\ op = NoOp
  /\ del = None
  /\ pure = NoPure
  /\ pc = [p \in DelMsgsCallers |-> "idle"]
  /\ loc = [p \in DelMsgsCallers |->
              [msg_ids |-> <<>>, pos |-> 0, location_id |-> 0,
               events |-> <<>>]]
  /\ jobs = <<>>
  /\ locations = {[id |-> 5, independent |-> TRUE]}
  /\ bulk = NoBulk

NextDelMsgsRace ==
  \/ \E p \in DelMsgsCallers : RaceDelMsgsCall(p)
  \/ \E p \in DelMsgsCallers : RaceDelMsgsLoad(p)
  \/ \E p \in DelMsgsCallers : RaceDelMsgsPoi(p)
  \/ \E p \in DelMsgsCallers : RaceDelMsgsTrash(p)
  \/ \E p \in DelMsgsCallers : RaceDelMsgsAdd(p)
  \/ \E p \in DelMsgsCallers : RaceDelMsgsEvent(p)
  \/ \E p \in DelMsgsCallers : RaceDelMsgsKill(p)
  \/ \E p \in DelMsgsCallers : RaceDelMsgsHousekeeping(p)

SpecDelMsgsRace == InitDelMsgsRace /\ [][NextDelMsgsRace]_vars

TypeOK ==
  /\ DOMAIN msgs \subseteq MsgIds
  /\ \A i \in DOMAIN msgs : msgs[i] \in MsgRow
  /\ msgs_mdns \subseteq [msg_id : MsgIds, contact_id : FromIds,
                          timestamp_sent : Timestamps \cup
                                             {RaceTimestamp(p) : p \in MdnCallers}]
  /\ ret \in {None} \cup (ChatIds \X MsgIds)
  /\ mdn_moved \subseteq MsgIds
  /\ returned \subseteq MsgIds
  /\ del \in {None} \cup {<<i>> : i \in OpIds}
  /\ DOMAIN pc \subseteq Callers \cup {DelCaller} \cup DelMsgsCallers
  /\ DOMAIN loc = DOMAIN pc
  /\ \A k \in DOMAIN jobs : jobs[k].foreign_id \in BulkIds
  /\ locations \subseteq [id : LocationIds, independent : BOOLEAN]
  /\ bulk.msg_ids \in IdLists

\* ------------------------------------------------------------------ claims
\* The claims speak of the stored tables directly; they use none of the
\* operators that model the code.
CanFailStates == {OutPreparing, OutPending, OutDelivered}

\* Self-sent rows carrying a correlation string.
SelfSentWith(rfc724_mid) ==
  {i \in DOMAIN msgs : msgs[i].from_id = DC_CONTACT_ID_SELF
                         /\ msgs[i].rfc724_mid = rfc724_mid}

\* Distinct contacts with an evidence row for a message.
EvidenceContacts(table, m) ==
  {r.contact_id : r \in {x \in table : x.msg_id = m}}

EvidenceRows(table, m) == {r \in table : r.msg_id = m}

Required(m) == (chats[msgs[m].chat_id].member_cnt + 1) \div 2

ChatTypeOf(m) == chats[msgs[m].chat_id].type

NonReserved(from_id) == from_id > DC_MSG_ID_LAST_SPECIAL

\* The step is a receipt from a non-reserved contact whose correlation
\* string is not empty and has a self-sent row; Target is the row with the
\* lowest id among them.
ReceiptForSelfSent ==
  /\ NonReserved(call'.from_id)
  /\ call'.rfc724_mid # ""
  /\ SelfSentWith(call'.rfc724_mid) # {}

Target == CHOOSE i \in SelfSentWith(call'.rfc724_mid) :
            \A j \in SelfSentWith(call'.rfc724_mid) : i <= j

\* C1: a group message that mdn_from_ext moved to OutMdnRcvd has evidence
\* rows from at least (member_count + 1) / 2 distinct contacts.
C1_GroupQuorumReached ==
  \A m \in mdn_moved :
    ChatTypeOf(m) = "Group" =>
      Cardinality(EvidenceContacts(msgs_mdns, m)) >= Required(m)

\* C1 witness: a group of four, the message moved by the second receipt.
C1_Witness ==
  \E m \in mdn_moved :
    /\ ChatTypeOf(m) = "Group"
    /\ chats[msgs[m].chat_id].member_cnt = 4
    /\ Cardinality(EvidenceContacts(msgs_mdns, m)) = 2
    /\ msgs[m].state = OutMdnRcvd

\* C2 (as claimed): a call returns the (chat_id, msg_id) pair exactly when
\* its processing moves that row to OutMdnRcvd, and nothing otherwise.
C2_ReturnsExactlyOnFiringCall ==
  [][/\ ret' # None =>
          /\ msgs[ret'[2]].state # OutMdnRcvd
          /\ msgs'[ret'[2]].state = OutMdnRcvd
          /\ ret'[2] \notin returned
     /\ \A m \in DOMAIN msgs :
          (msgs[m].state # OutMdnRcvd /\ msgs'[m].state = OutMdnRcvd)
            => ret' = <<msgs[m].chat_id, m>>]_vars

\* C3 (as claimed): a receipt from a non-reserved contact for a self-sent
\* message in a one-to-one chat leaves the message in OutMdnRcvd, when no
\* storage call fails.
C3_SingleAlwaysMoves ==
  [][(ReceiptForSelfSent /\ call'.fail = {} /\ ChatTypeOf(Target) = "Single")
       => msgs'[Target].state = OutMdnRcvd]_vars

\* C3 (amended): when the message's state satisfies can_fail and no storage
\* call fails, one receipt moves it to OutMdnRcvd on that call and the call
\* returns the pair, whatever the member count; in any other state the
\* receipt leaves the state as it is.
C3_SingleCanFailMoves ==
  [][(ReceiptForSelfSent /\ call'.fail = {} /\ ChatTypeOf(Target) = "Single")
       => IF msgs[Target].state \in CanFailStates
          THEN /\ msgs'[Target].state = OutMdnRcvd
               /\ ret' = <<msgs[Target].chat_id, Target>>
          ELSE /\ msgs'[Target].state = msgs[Target].state
               /\ ret' = None]_vars

\* C3 witness: a one-to-one chat of member count 4, the message moved by
\* the only receipt recorded for it.
C3_Witness ==
  /\ ret # None
  /\ call.fail = {}
  /\ ChatTypeOf(ret[2]) = "Single"
  /\ chats[ret[1]].member_cnt = 4
  /\ msgs[ret[2]].state = OutMdnRcvd
  /\ Cardinality(EvidenceRows(msgs_mdns, ret[2])) = 1

\* C4 (as claimed): a receipt whose (msg_id, contact) pair already has an
\* evidence row does not raise the evidence count and does not return the
\* pair again.
C4_RedeliveryIdempotent ==
  [][(/\ ReceiptForSelfSent
      /\ \E r \in msgs_mdns : r.msg_id = Target /\ r.contact_id = call'.from_id)
       => /\ Cardinality(EvidenceRows(msgs_mdns', Target))
               <= Cardinality(EvidenceRows(msgs_mdns, Target))
          /\ (Target \in returned => ret' = None)]_vars

\* C5: a call with an empty correlation string or a reserved reporting
\* contact returns nothing and changes neither table.
C5_RejectedIsNoOp ==
  [][(call'.rfc724_mid = "" \/ ~NonReserved(call'.from_id))
       => /\ ret' = None
          /\ msgs' = msgs
          /\ msgs_mdns' = msgs_mdns]_vars

\* C5 witness: the last reserved contact id reported a receipt for a stored
\* self-sent message that can still advance.
C5_Witness ==
  /\ call.from_id = DC_MSG_ID_LAST_SPECIAL
  /\ call.rfc724_mid # ""
  /\ \E m \in SelfSentWith(call.rfc724_mid) : msgs[m].state \in CanFailStates
  /\ ret = None

\* C6: a call whose correlation string has no self-sent row returns nothing
\* and changes neither table; a row sent by another contact never changes,
\* never gets evidence and is never returned.
C6_UnresolvedIsNoOp ==
  [][/\ (call'.rfc724_mid # "" /\ SelfSentWith(call'.rfc724_mid) = {})
          => /\ ret' = None
             /\ msgs' = msgs
             /\ msgs_mdns' = msgs_mdns
     /\ \A m \in DOMAIN msgs :
          msgs[m].from_id # DC_CONTACT_ID_SELF
            => /\ msgs'[m] = msgs[m]
               /\ EvidenceRows(msgs_mdns', m) = {}
               /\ (ret' # None => ret'[2] # m)]_vars

\* C6 witness: the correlation string of the call belongs only to a row
\* sent by another contact.
C6_Witness ==
  /\ NonReserved(call.from_id)
  /\ call.rfc724_mid # ""
  /\ call.fail = {}
  /\ SelfSentWith(call.rfc724_mid) = {}
  /\ \E m \in DOMAIN msgs : msgs[m].rfc724_mid = call.rfc724_mid
  /\ \E m \in DOMAIN msgs : msgs[m].state \in CanFailStates
  /\ ret = None

\* C7: a receipt is applied to the self-sent row with the lowest id among
\* those sharing its correlation string: that row gets the evidence and,
\* if any, the transition; every other row keeps its state and evidence.
C7_LowestIdResolved ==
  [][ReceiptForSelfSent
       => /\ \A m \in DOMAIN msgs \ {Target} :
               /\ msgs'[m] = msgs[m]
               /\ EvidenceRows(msgs_mdns', m) = EvidenceRows(msgs_mdns, m)
          /\ (ret' # None => ret'[2] = Target)
          /\ (msgs[Target].state \in CanFailStates /\ call'.fail = {})
               => \E r \in msgs_mdns' :
                    r.msg_id = Target /\ r.contact_id = call'.from_id]_vars

\* C7 witness: two self-sent rows share a correlation string; the receipt
\* moved the lower one and the higher one can still advance, untouched.
C7_Witness ==
  /\ Cardinality(SelfSentWith(call.rfc724_mid)) = 2
  /\ ret # None
  /\ ret[2] = DC_MSG_ID_LAST_SPECIAL + 1
  /\ msgs[DC_MSG_ID_LAST_SPECIAL + 1].state = OutMdnRcvd
  /\ msgs[DC_MSG_ID_LAST_SPECIAL + 2].state \in CanFailStates
  /\ EvidenceRows(msgs_mdns, DC_MSG_ID_LAST_SPECIAL + 1) # {}
  /\ EvidenceRows(msgs_mdns, DC_MSG_ID_LAST_SPECIAL + 2) = {}

\* C8 (as claimed): when the resolved row's state does not satisfy can_fail
\* and the pair has no evidence row, the call records the row (msg_id,
\* contact, sent timestamp), changes no state and returns nothing.
C8_MootStillRecords ==
  [][(/\ ReceiptForSelfSent
      /\ call'.fail = {}
      /\ msgs[Target].state \notin CanFailStates
      /\ ~\E r \in msgs_mdns : r.msg_id = Target /\ r.contact_id = call'.from_id)
       => /\ [msg_id |-> Target, contact_id |-> call'.from_id,
              timestamp_sent |-> call'.timestamp_sent] \in msgs_mdns'
          /\ msgs' = msgs
          /\ ret' = None]_vars

\* C8 (amended): when the resolved row's state does not satisfy can_fail,
\* the call records no evidence, changes no state and returns nothing.
C8_MootIsNoOp ==
  [][(ReceiptForSelfSent /\ msgs[Target].state \notin CanFailStates)
       => /\ msgs_mdns' = msgs_mdns
          /\ msgs' = msgs
          /\ ret' = None]_vars

\* C8 witness: a receipt resolved to a draft that has no evidence row for
\* the reporting contact.
C8_Witness ==
  /\ NonReserved(call.from_id)
  /\ call.fail = {}
  /\ \E m \in SelfSentWith(call.rfc724_mid) :
       /\ \A j \in SelfSentWith(call.rfc724_mid) : m <= j
       /\ msgs[m].state = OutDraft
       /\ ~\E r \in msgs_mdns : r.msg_id = m /\ r.contact_id = call.from_id
  /\ ret = None

\* C9 (as claimed): the pair is returned only for a message whose stored
\* state is OutMdnRcvd; a failed state write returns nothing.
C9_ReturnedImpliesStored ==
  ret # None => msgs[ret[2]].state = OutMdnRcvd

\* C10: when only the evidence insert fails, the call goes on: no row is
\* added, and the message moves to OutMdnRcvd and the pair is returned
\* exactly when the chat is one-to-one or the stored evidence rows reach the
\* required count.
C10_InsertFailureEvaluates ==
  [][(ReceiptForSelfSent /\ call'.fail = {"insert"})
       => LET decided == \/ ChatTypeOf(Target) = "Single"
                         \/ Cardinality(EvidenceRows(msgs_mdns, Target))
                              >= Required(Target)
          IN /\ msgs[Target].state \in CanFailStates
             /\ msgs_mdns' = msgs_mdns
             /\ (msgs'[Target].state = OutMdnRcvd) <=> decided
             /\ (ret' = <<msgs[Target].chat_id, Target>>) <=> decided
             /\ (ret' = None) <=> ~decided]_vars

\* C10 witness: the insert failed and the group message still moved, on the
\* evidence rows stored before the call.
C10_Witness ==
  /\ call.fail = {"insert"}
  /\ ret # None
  /\ ChatTypeOf(ret[2]) = "Group"
  /\ Required(ret[2]) >= 1
  /\ msgs[ret[2]].state = OutMdnRcvd
  /\ ~\E r \in msgs_mdns : r.msg_id = ret[2] /\ r.contact_id = call.from_id
\* C12: can_fail is true exactly for the states OutPreparing, OutPending and
\* OutDelivered, and false for every other state.
C12_CanFailExactly ==
  "can_fail" \in DOMAIN pure.out =>
    pure.out["can_fail"] = (pure.arg \in CanFailStates)

C12_Witness ==
  /\ "can_fail" \in DOMAIN pure.out
  /\ pure.arg = OutPreparing
  /\ pure.out["can_fail"] = TRUE

\* C15: is_special(MsgId(v)) equals v <= DC_MSG_ID_LAST_SPECIAL, v = 0
\* included, and whenever is_unset holds of an id is_special holds of it too.
C15_SpecialIffAtMostLast ==
  /\ "is_special" \in DOMAIN pure.out =>
       pure.out["is_special"] = (pure.arg \in 0..DC_MSG_ID_LAST_SPECIAL)
  /\ ({"is_special", "is_unset"} \subseteq DOMAIN pure.out /\ pure.out["is_unset"]) =>
       pure.out["is_special"]

C15_Witness ==
  /\ {"is_special", "is_unset"} \subseteq DOMAIN pure.out
  /\ pure.arg = 0
  /\ pure.out["is_unset"] = TRUE
  /\ pure.out["is_special"] = TRUE
\* C13: set_msg_failed on a stored message whose state does not satisfy
\* can_fail leaves the stored message unchanged and emits no "message
\* failed" event.
C13_NotCanFailIsNoOp ==
  [][(/\ op'.name = "set_msg_failed"
      /\ op'.id \in DOMAIN msgs
      /\ msgs[op'.id].state \notin CanFailStates)
     => (msgs' = msgs /\ op'.event = None)]_vars

\* C16: load_from_db called with a special id (0 included) returns an error
\* and issues no query, whatever is stored.
C16_SpecialIdRejectedUnqueried ==
  (op.name = "load_from_db" /\ op.id \in 0..DC_MSG_ID_LAST_SPECIAL)
    => (op.result = "Err" /\ ~op.queried)

C16_Witness ==
  /\ op.name = "load_from_db"
  /\ op.id = DC_MSG_ID_LAST_SPECIAL
  /\ op.result = "Err"
  /\ ~op.queried
  /\ DOMAIN msgs = MsgIds

\* A completed delete_from_db call: it returned Ok, or it is the partial
\* failure in which only the deletion of the message row failed.
DeletedOrPartial(o) ==
  /\ o.name = "delete_from_db"
  /\ \/ o.result = "Ok"
     \/ o.result = "Err" /\ o.fail = {"msgs"}

\* C17 as stated: exists(id) right after delete_from_db(id) returns false,
\* also when only the deletion of the message row failed.
C17_ExistsFalseAfterDelete ==
  [][(DeletedOrPartial(op) /\ op'.name = "exists" /\ op'.id = op.id)
     => op'.result = "false"]_vars

\* C17 amended: exists(id) right after delete_from_db(id) returns false when
\* the deletion returned Ok; after the partial failure exists(id) returns
\* true exactly when the row is stored outside the trash chat and the query
\* of exists succeeds.
C17_ExistsAfterDelete ==
  [][(DeletedOrPartial(op) /\ op'.name = "exists" /\ op'.id = op.id)
     => IF op.result = "Ok"
        THEN op'.result = "false"
        ELSE op'.result = "true" <=>
               (/\ op.id \in DOMAIN msgs
                /\ msgs[op.id].chat_id # DC_CHAT_ID_TRASH
                /\ op'.fail = {})]_vars

\* exists(11) returned true for a stored row whose evidence rows, present
\* from the start, are gone: a delete_from_db(11) stopped after them.
C17_Witness ==
  /\ op.name = "exists"
  /\ op.id = DC_MSG_ID_LAST_SPECIAL + 2
  /\ op.result = "true"
  /\ op.id \in DOMAIN msgs
  /\ msgs[op.id].chat_id # DC_CHAT_ID_TRASH
  /\ \A r \in msgs_mdns : r.msg_id # op.id

\* C18: in a run of delete_from_db with nothing interleaved, at no point is
\* a message row gone while evidence rows for it remain, and a call whose
\* evidence deletion fails deletes nothing and ends there.
C18_EvidenceGoesFirst ==
  [][/\ \A i \in MsgIds \ DOMAIN msgs' : \A r \in msgs_mdns' : r.msg_id # i
     /\ (op'.name = "delete_from_db" /\ op'.fail = {"msgs_mdns"})
          => (msgs' = msgs /\ msgs_mdns' = msgs_mdns /\ del' = None)]_vars

C18_Witness ==
  /\ del # None
  /\ del[1] \in DOMAIN msgs
  /\ \A r \in msgs_mdns : r.msg_id # del[1]
  /\ msgs_mdns # {}

\* C19: a second trash(id) right after a first one, on a stored message and
\* with working storage, returns Ok and leaves the tables as the first call
\* left them: the row in the trash chat, text and raw text empty.
C19_TrashIdempotent ==
  [][(/\ op'.name = "trash"
      /\ op'.repeat
      /\ op'.fail = {}
      /\ op'.id \in DOMAIN msgs)
     => (/\ op'.result = "Ok"
         /\ msgs' = msgs
         /\ msgs_mdns' = msgs_mdns
         /\ msgs'[op'.id].chat_id = DC_CHAT_ID_TRASH
         /\ msgs'[op'.id].txt = ""
         /\ msgs'[op'.id].txt_raw = "")]_vars

C19_Witness ==
  /\ op.name = "trash"
  /\ op.repeat
  /\ op.result = "Ok"
  /\ op.id \in DOMAIN msgs
  /\ msgs[op.id].chat_id = DC_CHAT_ID_TRASH
  /\ msgs[op.id].txt = ""
  /\ msgs[op.id].txt_raw = ""

\* C20: unlink(id) sets server_folder and server_uid of the row with that id
\* to their cleared values and changes nothing else: no other column of the
\* row, no other row (rows with the same rfc724_mid included), no evidence
\* row; a failed unlink changes nothing.
C20_UnlinkClearsOnlyLocation ==
  [][op'.name = "unlink"
     => (/\ msgs_mdns' = msgs_mdns
         /\ msgs' = IF op'.id \in DOMAIN msgs /\ op'.fail = {}
                    THEN [msgs EXCEPT ![op'.id].server_folder = "",
                                      ![op'.id].server_uid = 0]
                    ELSE msgs)]_vars

C20_Witness ==
  /\ op.name = "unlink"
  /\ op.result = "Ok"
  /\ op.id \in DOMAIN msgs
  /\ msgs[op.id].server_folder = ""
  /\ msgs[op.id].server_uid = 0
  /\ \E i \in DOMAIN msgs :
       /\ i # op.id
       /\ msgs[i].rfc724_mid = msgs[op.id].rfc724_mid
       /\ msgs[i].server_folder = "INBOX"
       /\ msgs[i].server_uid = 7
C14_MdnRcvdNeverFails ==
  [][\A i \in DOMAIN msgs :
       msgs[i].state = OutMdnRcvd => msgs'[i].state # OutFailed]_vars
\* C27: is_sent is true exactly for the states OutDelivered and OutMdnRcvd;
\* in particular it is false for OutFailed.
C27_SentIffDeliveredOrRead ==
  "is_sent" \in DOMAIN pure.out =>
    pure.out["is_sent"] = (pure.arg = OutDelivered \/ pure.arg = OutMdnRcvd)

C27_Witness ==
  /\ "is_sent" \in DOMAIN pure.out
  /\ pure.arg = OutFailed
  /\ pure.out["is_sent"] = FALSE
\* What a claim expects of decoding raw into a type with the given codes and
\* default: never an error, the variant for a code, the default otherwise.
DecodesOrDefaults(r, codes, default, raw) ==
  /\ r.result = "Ok"
  /\ r.value = IF raw \in codes THEN raw ELSE default

\* C28: decoding a stored integer into MessageState, MessengerMessage or
\* MsgId never fails: a variant's code gives the variant, any other integer
\* gives the default (Undefined for MessageState).
C28_DecodeNeverFails ==
  /\ "decode_MessageState" \in DOMAIN pure.out =>
       DecodesOrDefaults(pure.out["decode_MessageState"],
                         {0, 10, 13, 16, 18, 19, 20, 24, 26, 28}, 0, pure.arg)
  /\ "decode_MessengerMessage" \in DOMAIN pure.out =>
       DecodesOrDefaults(pure.out["decode_MessengerMessage"], {0, 1, 2}, 0, pure.arg)
  /\ "decode_MsgId" \in DOMAIN pure.out =>
       DecodesOrDefaults(pure.out["decode_MsgId"],
                         {v \in RawInputs : v >= 0}, 0, pure.arg)
\* The mime type the suffix table gives a lower-cased extension.
SuffixMime ==
  [e \in {"mp3", "aac", "mp4", "webm", "jpg", "jpeg", "jpe", "png", "webp",
          "gif", "vcf", "vcard"} |->
     CASE e = "mp3" -> "audio/mpeg"
       [] e = "aac" -> "audio/aac"
       [] e = "mp4" -> "video/mp4"
       [] e = "webm" -> "video/webm"
       [] e \in {"jpg", "jpeg", "jpe"} -> "image/jpeg"
       [] e = "png" -> "image/png"
       [] e = "webp" -> "image/webp"
       [] e = "gif" -> "image/gif"
       [] e \in {"vcf", "vcard"} -> "text/vcard"]

LowerCased(e) == IF e = "JPG" THEN "jpg" ELSE e

\* C30: get_filemime returns the mime-type parameter when it is set;
\* otherwise, with a file parameter, the mime type of the file's suffix or
\* "application/octet-stream" for an unknown or missing suffix; and nothing
\* when neither parameter is set.
C30_FilemimeByParams ==
  "get_filemime" \in DOMAIN pure.out =>
    LET p == pure.arg
        r == pure.out["get_filemime"]
    IN IF p.mimetype # None THEN r = p.mimetype
       ELSE IF p.file = None THEN r = None
       ELSE IF p.file[1].ext # None
               /\ LowerCased(p.file[1].ext[1]) \in DOMAIN SuffixMime
       THEN r = <<SuffixMime[LowerCased(p.file[1].ext[1])]>>
       ELSE r = <<"application/octet-stream">>

C30_Witness ==
  /\ "get_filemime" \in DOMAIN pure.out
  /\ pure.arg.mimetype = None
  /\ pure.arg.file # None
  /\ pure.arg.file[1].ext = <<"bar">>
  /\ pure.out["get_filemime"] = <<"application/octet-stream">>
\* The type label of a content kind that has one.
KindLabel ==
  [v \in {"Image", "Gif", "Sticker", "Video", "Voice", "Audio", "File"} |->
     IF v = "Voice" THEN "VoiceMessage" ELSE v]

\* The prefix the claim describes for the arguments a. An autocrypt setup
\* message is an audio or file message with that command; a message of a
\* kind without label shows the location label when it is location-only.
ClaimedPrefix(a) ==
  IF a.viewtype \in {"Image", "Gif", "Sticker", "Video", "Voice"}
  THEN <<KindLabel[a.viewtype]>>
  ELSE IF a.viewtype \in {"Audio", "File"}
  THEN IF a.cmd = "AutocryptSetupMessage" THEN <<"AcSetupMsgSubject">>
       ELSE <<KindLabel[a.viewtype], " ", "-", " ",
              IF a.file \in {None, <<"..">>} THEN "ErrFileName" ELSE a.file[1]>>
  ELSE IF a.cmd = "LocationOnly" THEN <<"Location">>
  ELSE <<>>

\* The arguments for which the text is never shown.
TextSuppressed(a) ==
  IF a.viewtype \in {"Audio", "File"} THEN a.cmd = "AutocryptSetupMessage"
  ELSE a.viewtype \notin DOMAIN KindLabel /\ a.cmd = "LocationOnly"

\* The text as shown: white space runs are one blank.
ShownText(t) ==
  IF t = <<"bla", "\n", " ", "bla">> THEN <<"bla", " ", "bla">> ELSE t

\* C29: the preview is the prefix of the content kind (label without file
\* name for image, video, gif, sticker, voice; label, en dash and file name
\* for audio and file; the fixed subject alone for an autocrypt setup
\* message; nothing for plain text); non-empty text follows a non-empty
\* prefix after an en dash, empty or absent text leaves the prefix alone.
\* A text beyond the character budget is cut and ends in the ellipsis.
C29_SummaryByKind ==
  "get_summarytext_by_raw" \in DOMAIN pure.out =>
    LET a == pure.arg
        r == pure.out["get_summarytext_by_raw"]
        prefix == ClaimedPrefix(a)
    IN IF TextSuppressed(a) \/ a.text = None \/ a.text = << <<>> >>
       THEN r = prefix
       ELSE IF a.text[1] = <<LongText>>
       THEN r # <<>> /\ r[Len(r)] = "[...]"
       ELSE IF prefix = <<>>
       THEN r = ShownText(a.text[1])
       ELSE r = prefix \o <<" ", "-", " ">> \o ShownText(a.text[1])

C29_Witness ==
  /\ "get_summarytext_by_raw" \in DOMAIN pure.out
  /\ pure.arg.viewtype = "Audio"
  /\ pure.arg.cmd = "Unknown"
  /\ pure.arg.file = <<"foo.bar">>
  /\ pure.arg.text = << <<"bla", " ", "bla">> >>
  /\ pure.out["get_summarytext_by_raw"] =
       <<"Audio", " ", "-", " ", "foo.bar", " ", "-", " ", "bla", " ", "bla">>

\* The jobs of one action among the pending jobs, in order.
JobsOf(pending, action) == SelectSeq(pending, LAMBDA j : j.action = action)

\* The statements of the trace of the last bulk call that act for the id at
\* position p, the reads left out.
ActsAt(trace, p) ==
  SelectSeq(trace, LAMBDA e : e.pos = p /\ e.stmt # "load")

StmtNames(trace) == [k \in DOMAIN trace |-> trace[k].stmt]

\* The id at position p of the list names a stored row, the read of it did
\* not fail, and the row has a location bound to it.
LoadsWithLocation(table, ids, fail, p) ==
  /\ ids[p] \in DOMAIN table
  /\ ids[p] > DC_MSG_ID_LAST_SPECIAL
  /\ <<p, "load">> \notin fail
  /\ table[ids[p]].location_id # 0

\* The ids of the list whose trash write did not fail at some position.
TrashWritten(ids, fail) ==
  {ids[p] : p \in {q \in DOMAIN ids : <<q, "trash">> \notin fail}}

\* C21: a delete_msgs call works through its ids in list order; for each
\* id it cleans up the location (only when the message loaded and has a
\* location bound to it), then trashes the row, then adds exactly one
\* DeleteMsgOnImap job for that id; a failed load or a failed trash of one
\* id does not stop the loop: every id of the list gets its trash statement
\* and its job, and every stored id whose trash write went through is in
\* the trash chat afterwards.
C21_DeleteSequentialPerId ==
  [][bulk'.name = "delete_msgs" =>
       LET ids == bulk'.msg_ids
           trace == bulk'.issued
       IN /\ \A j, k \in DOMAIN trace : j < k => trace[j].pos <= trace[k].pos
          /\ \A k \in DOMAIN trace : /\ trace[k].pos \in DOMAIN ids
                                     /\ trace[k].id = ids[trace[k].pos]
          /\ \A p \in DOMAIN ids :
               StmtNames(ActsAt(trace, p)) =
                 (IF LoadsWithLocation(msgs, ids, bulk'.fail, p)
                  THEN <<"delete_poi">> ELSE <<>>) \o <<"trash", "job_add">>
          /\ JobsOf(jobs', "DeleteMsgOnImap") =
               JobsOf(jobs, "DeleteMsgOnImap") \o
                 [p \in DOMAIN ids |->
                    [action |-> "DeleteMsgOnImap", foreign_id |-> ids[p]]]
          /\ \A i \in DOMAIN msgs :
               IF i \in TrashWritten(ids, bulk'.fail)
               THEN msgs'[i].chat_id = DC_CHAT_ID_TRASH
               ELSE msgs'[i] = msgs[i]]_vars

\* A call with two different ids: the load of the first failed, the second
\* row had its location cleaned up and is in the trash chat.
C21_Witness ==
  /\ bulk.name = "delete_msgs"
  /\ Len(bulk.msg_ids) = 2
  /\ bulk.msg_ids[1] # bulk.msg_ids[2]
  /\ <<1, "load">> \in bulk.fail
  /\ \E k \in DOMAIN bulk.issued :
       bulk.issued[k].pos = 2 /\ bulk.issued[k].stmt = "delete_poi"
  /\ bulk.msg_ids[2] \in DOMAIN msgs
  /\ msgs[bulk.msg_ids[2]].chat_id = DC_CHAT_ID_TRASH
  /\ Len(JobsOf(jobs, "DeleteMsgOnImap")) >= 2

\* C22: a delete_msgs call emits exactly one MsgsChanged event, removes the
\* pending Housekeeping jobs and adds exactly one Housekeeping job if and
\* only if its list is not empty; with an empty list it emits nothing and
\* leaves the jobs alone; so at most one Housekeeping job is pending after
\* any sequence of delete_msgs calls.
C22_OneEventOneHousekeeping ==
  [][bulk'.name = "delete_msgs" =>
       /\ IF bulk'.msg_ids # <<>>
          THEN /\ bulk'.events = <<"MsgsChanged">>
               /\ Len(JobsOf(jobs', "Housekeeping")) = 1
               /\ jobs'[Len(jobs')].action = "Housekeeping"
          ELSE /\ bulk'.events = <<>>
               /\ jobs' = jobs
       /\ Len(JobsOf(jobs', "Housekeeping")) <= 1]_vars

\* A call with a list that is not empty ran while the Housekeeping job of
\* an earlier call was pending.
C22_Witness ==
  /\ bulk.name = "delete_msgs"
  /\ bulk.msg_ids # <<>>
  /\ bulk.events = <<"MsgsChanged">>
  /\ Len(JobsOf(jobs, "DeleteMsgOnImap")) > Len(bulk.msg_ids)
  /\ Len(JobsOf(jobs, "Housekeeping")) = 1

\* C23: a delete_msgs call on stored rows whose trash write failed for
\* every id of its list emits no MsgsChanged event.
C23_NoEventWhenNoTrashWrite ==
  [][(/\ bulk'.name = "delete_msgs"
      /\ bulk'.msg_ids # <<>>
      /\ \A p \in DOMAIN bulk'.msg_ids : bulk'.msg_ids[p] \in DOMAIN msgs
      /\ TrashWritten(bulk'.msg_ids, bulk'.fail) = {})
       => bulk'.events = <<>>]_vars

\* The id at position p names a stored row of a real chat, in one of the
\* given states, whose chat is blocked or not as asked.
SeenCase(table, ids, p, states, not_blocked) ==
  /\ ids[p] \in DOMAIN table
  /\ table[ids[p]].chat_id \in ChatIds
  /\ table[ids[p]].state \in states
  /\ (chats[table[ids[p]].chat_id].blocked = "Not") = not_blocked

\* The MarkseenMsgOnImap jobs pending for an id.
MarkseenJobs(pending, id) ==
  SelectSeq(pending,
            LAMBDA j : j.action = "MarkseenMsgOnImap" /\ j.foreign_id = id)

\* C25: a markseen_msgs call with working storage moves every listed row
\* that is InFresh or InNoticed in a non-blocked real chat to InSeen and
\* adds a MarkseenMsgOnImap job for its id; it moves every listed InFresh
\* row of a blocked chat to InNoticed and adds no job for it; it adds a
\* MarkseenMsgOnImap job for an id only when that row is InSeen afterwards.
C25_MarkseenAdvances ==
  [][(bulk'.name = "markseen_msgs" /\ bulk'.fail = {}) =>
       LET ids == bulk'.msg_ids
       IN /\ \A p \in DOMAIN ids :
               SeenCase(msgs, ids, p, {InFresh, InNoticed}, TRUE) =>
                 /\ msgs'[ids[p]].state = InSeen
                 /\ Len(MarkseenJobs(jobs', ids[p])) >
                      Len(MarkseenJobs(jobs, ids[p]))
          /\ \A p \in DOMAIN ids :
               SeenCase(msgs, ids, p, {InFresh}, FALSE) =>
                 /\ msgs'[ids[p]].state = InNoticed
                 /\ MarkseenJobs(jobs', ids[p]) = MarkseenJobs(jobs, ids[p])
          /\ \A i \in BulkIds :
               Len(MarkseenJobs(jobs', i)) > Len(MarkseenJobs(jobs, i)) =>
                 i \in DOMAIN msgs /\ msgs'[i].state = InSeen]_vars

\* The positions of a list whose write failed.
FailedWrites(ids, fail) == {p \in DOMAIN ids : <<p, "update">> \in fail}

\* The ids of a list at the positions before the first failed write, all
\* of them when no write failed.
StarredIds(ids, fail) ==
  {ids[p] : p \in {q \in DOMAIN ids :
                     \A f \in FailedWrites(ids, fail) : q < f}}

\* C26: a star_msgs call returns false for an empty list and when a write
\* failed, true when every write succeeded; the rows named before the
\* first failed write carry the new flag, every other row keeps its flag;
\* no other column of a row, no other table and no job changes, and no
\* event is emitted.
C26_StarAggregateResult ==
  [][bulk'.name = "star_msgs" =>
       LET ids == bulk'.msg_ids
           fail == bulk'.fail
       IN /\ bulk'.result = IF ids = <<>> \/ FailedWrites(ids, fail) # {}
                            THEN "false" ELSE "true"
          /\ \A i \in DOMAIN msgs :
               msgs'[i].starred = IF i \in StarredIds(ids, fail)
                                  THEN bulk'.star ELSE msgs[i].starred
          /\ DOMAIN msgs' = DOMAIN msgs
          /\ \A i \in DOMAIN msgs :
               [msgs'[i] EXCEPT !.starred = msgs[i].starred] = msgs[i]
          /\ bulk'.events = <<>>
          /\ UNCHANGED <<chats, msgs_mdns, jobs, locations>>]_vars

\* A call that starred two different rows and failed on the second: the
\* first row is starred, the second is not, the result is false.
C26_Witness ==
  /\ bulk.name = "star_msgs"
  /\ bulk.star
  /\ Len(bulk.msg_ids) = 2
  /\ bulk.msg_ids[1] # bulk.msg_ids[2]
  /\ bulk.fail = {<<2, "update">>}
  /\ bulk.result = "false"
  /\ bulk.msg_ids[1] \in DOMAIN msgs /\ msgs[bulk.msg_ids[1]].starred
  /\ bulk.msg_ids[2] \in DOMAIN msgs /\ ~msgs[bulk.msg_ids[2]].starred

\* C31: of two concurrent mdn_from_ext calls for one message at most one
\* returns the (chat_id, msg_id) pair.
C31_AtMostOnePairPerMessage ==
  \A p, q \in MdnCallers :
    (p # q /\ p \in DOMAIN loc /\ q \in DOMAIN loc
       /\ loc[p].ret # None /\ loc[q].ret # None)
      => loc[p].ret # loc[q].ret

\* C32: once a delete_from_db call that ran against a concurrent
\* mdn_from_ext call for the same message has returned Ok, the evidence
\* table holds no row for the deleted id.
C32_NoOrphanAfterDelete ==
  (/\ DelCaller \in DOMAIN pc
   /\ pc[DelCaller] = "done"
   /\ loc[ReceiptCaller].res # None
   /\ loc[ReceiptCaller].res.msg_id = loc[DelCaller].msg_id)
    => EvidenceRows(msgs_mdns, loc[DelCaller].msg_id) = {}

\* C33: when two concurrent delete_msgs calls with lists that are not
\* empty have both finished, at most one Housekeeping job is pending.
C33_OneHousekeepingAfterRace ==
  (/\ DOMAIN pc = DelMsgsCallers
   /\ \A p \in DelMsgsCallers : pc[p] = "done" /\ loc[p].msg_ids # <<>>)
    => Len(JobsOf(jobs, "Housekeeping")) <= 1

\* C34 (as claimed): a call that returns the pair has an evidence row for
\* (msg_id, reporting contact) stored at that moment, and a call that moves
\* a message to OutMdnRcvd leaves it with at least one evidence row, also
\* when the evidence insert failed or the member count is 0.
C34_PairImpliesEvidence ==
  [][ReceiptForSelfSent
       => /\ ret' # None
               => \E r \in msgs_mdns' :
                    r.msg_id = ret'[2] /\ r.contact_id = call'.from_id
          /\ (msgs'[Target].state = OutMdnRcvd /\ msgs[Target].state # OutMdnRcvd)
               => EvidenceRows(msgs_mdns', Target) # {}]_vars

\* C34 (amended): the same for every call whose evidence insert did not
\* fail, whatever else failed and whatever the member count; a call in
\* which only the insert failed and which found no row of the contact
\* stores none, and still returns the pair for a one-to-one chat and for a
\* group that requires no evidence.
C34_PairImpliesEvidenceUnlessInsertFailed ==
  [][ReceiptForSelfSent
       => /\ "insert" \notin call'.fail
               => /\ ret' # None
                       => \E r \in msgs_mdns' :
                            r.msg_id = ret'[2] /\ r.contact_id = call'.from_id
                  /\ (/\ msgs'[Target].state = OutMdnRcvd
                      /\ msgs[Target].state # OutMdnRcvd)
                       => EvidenceRows(msgs_mdns', Target) # {}
          /\ (/\ call'.fail = {"insert"}
              /\ EvidenceRows(msgs_mdns, Target) = {}
              /\ (ChatTypeOf(Target) = "Single" \/ Required(Target) = 0))
               => /\ ret' = <<msgs[Target].chat_id, Target>>
                  /\ EvidenceRows(msgs_mdns', Target) = {}]_vars

\* C34 witness: with working storage a receipt moved a message of a group
\* with member count 0; the evidence row of the reporting contact is stored.
C34_Witness ==
  /\ call.fail = {}
  /\ ret # None
  /\ ChatTypeOf(ret[2]) = "Group"
  /\ chats[ret[1]].member_cnt = 0
  /\ msgs[ret[2]].state = OutMdnRcvd
  /\ \E r \in msgs_mdns : r.msg_id = ret[2] /\ r.contact_id = call.from_id

\* C35: exists(id) is false for a special id, without a query; with working
\* storage it is true exactly for a stored row with a real id that is not
\* in the trash chat, so it is false for a missing row and for a row that
\* trash moved to the trash chat and that is still stored.
C35_ExistsOnlyOutsideTrash ==
  op.name = "exists" =>
    /\ op.id \in 0..DC_MSG_ID_LAST_SPECIAL
         => (op.result = "false" /\ ~op.queried)
    /\ op.fail = {}
         => (op.result = "true" <=>
               /\ op.id > DC_MSG_ID_LAST_SPECIAL
               /\ op.id \in DOMAIN msgs
               /\ msgs[op.id].chat_id # DC_CHAT_ID_TRASH)

\* C35 witness: exists returned false, after a query, for a row that trash
\* moved to the trash chat and that is still stored.
C35_Witness ==
  /\ op.name = "exists"
  /\ op.fail = {}
  /\ op.queried
  /\ op.result = "false"
  /\ op.id \in DOMAIN msgs
  /\ msgs[op.id].chat_id = DC_CHAT_ID_TRASH
  /\ msgs[op.id].txt = ""

\* The id names no row, or a row that is not InFresh or InNoticed (an
\* outgoing row, a row already InSeen), or a row of a reserved chat.
OutsideTriage(table, id) ==
  \/ id \notin DOMAIN table
  \/ table[id].state \notin {InFresh, InNoticed}
  \/ table[id].chat_id \notin ChatIds

\* C36: a markseen_msgs call leaves every listed row unchanged that is
\* outgoing, already InSeen or in a reserved chat, adds no job for such an
\* id or for an id without a row, and removes no row; it returns false for
\* an empty list and true for every other list.
C36_MarkseenFrame ==
  [][bulk'.name = "markseen_msgs" =>
       LET ids == bulk'.msg_ids
       IN /\ \A p \in DOMAIN ids :
               OutsideTriage(msgs, ids[p]) =>
                 /\ ids[p] \in DOMAIN msgs => msgs'[ids[p]] = msgs[ids[p]]
                 /\ MarkseenJobs(jobs', ids[p]) = MarkseenJobs(jobs, ids[p])
          /\ DOMAIN msgs' = DOMAIN msgs
          /\ bulk'.result = IF ids = <<>> THEN "false" ELSE "true"]_vars

\* C36 witness: a call listed a delivered row sent by the local user and a
\* row of the trash chat; both are as they were, no job is pending, and
\* the call returned true.
C36_Witness ==
  /\ bulk.name = "markseen_msgs"
  /\ bulk.result = "true"
  /\ Len(bulk.msg_ids) = 2
  /\ bulk.msg_ids[1] \in DOMAIN msgs
  /\ msgs[bulk.msg_ids[1]].state = OutDelivered
  /\ bulk.msg_ids[2] \in DOMAIN msgs
  /\ msgs[bulk.msg_ids[2]].chat_id = DC_CHAT_ID_TRASH
  /\ msgs[bulk.msg_ids[2]].state = InFresh
  /\ jobs = <<>>

\* The id names a stored row with a real id and the read of it did not fail.
Loadable(table, id, fail) ==
  /\ id > DC_MSG_ID_LAST_SPECIAL
  /\ id \in DOMAIN table
  /\ "load" \notin fail

\* C37: a set_msg_failed call on a loadable row in a can_fail state, when
\* its write goes through, stores OutFailed and the error text, if one is
\* given, changes nothing else and emits MsgFailed for the row's chat and
\* id; when the write fails it stores nothing and emits nothing; a call on
\* a row that cannot be loaded stores nothing and emits nothing.
C37_FailedStoredThenNotified ==
  [][op'.name = "set_msg_failed" =>
       IF Loadable(msgs, op'.id, op'.fail)
       THEN msgs[op'.id].state \in CanFailStates =>
              IF "update" \notin op'.fail
              THEN /\ msgs' = [msgs EXCEPT
                                 ![op'.id].state = OutFailed,
                                 ![op'.id].param = IF op'.error = None THEN @
                                                   ELSE op'.error[1]]
                   /\ op'.event = <<"MsgFailed", msgs[op'.id].chat_id, op'.id>>
              ELSE msgs' = msgs /\ op'.event = None
       ELSE msgs' = msgs /\ op'.event = None]_vars

\* C37 witness: a call with an error text went through: the row is
\* OutFailed, carries the text, and the event names its chat and id.
C37_Witness ==
  /\ op.name = "set_msg_failed"
  /\ op.fail = {}
  /\ op.error = <<"err">>
  /\ op.id \in DOMAIN msgs
  /\ msgs[op.id].state = OutFailed
  /\ msgs[op.id].param = "err"
  /\ op.event = <<"MsgFailed", msgs[op.id].chat_id, op.id>>

\* C38: when the contacts whose receipts are processed are at least as
\* many as the group message requires, (member_count + 1) / 2, and no
\* storage call fails, the message reaches OutMdnRcvd and stays there under
\* every further receipt, in whatever order and with whatever repeats the
\* receipts arrive.
C38_QuorumEventuallyRead ==
  (Required(LiveMsg) <= Cardinality(RealContacts))
    => <>[](msgs[LiveMsg].state = OutMdnRcvd)

\* C38 witness: the group message was moved on the receipts of the required
\* number of contacts, two or more, and a receipt that came after it
\* returned nothing and left the state as it is.
C38_Witness ==
  /\ LiveMsg \in mdn_moved
  /\ ChatTypeOf(LiveMsg) = "Group"
  /\ Required(LiveMsg) >= 2
  /\ Cardinality(EvidenceContacts(msgs_mdns, LiveMsg)) >= Required(LiveMsg)
  /\ call.rfc724_mid = "a"
  /\ call.fail = {}
  /\ ret = None
  /\ msgs[LiveMsg].state = OutMdnRcvd

====
